---- MODULE Spec2Model ----
(***************************************************************************)
(* Model of OurClock's scheduler driver (src/src/schedule_model.py).       *)
(*                                                                         *)
(* schedule_courses validates its inputs, then builds and solves a fresh   *)
(* CP-SAT model per phase (solve_phase) and returns (schedule, message).   *)
(* The CP-SAT solver is modelled by its contract: OPTIMAL comes with an    *)
(* assignment of minimal objective, FEASIBLE with any assignment that      *)
(* satisfies the hard constraints, INFEASIBLE only when there is none, and *)
(* UNKNOWN when the 60 s limit ends the search without an answer.          *)
(***************************************************************************)
EXTENDS Integers, Sequences, FiniteSets, TLC

VARIABLES
    courses,                  \* course_id -> course_info (key -> list of slot labels)
    student_course_map,       \* student_id -> list of course ids
    course_professor_map,     \* course_id -> str | list | None
    course_classes_per_week,  \* course_id -> int
    course_type,              \* course_id -> "Required" | "Elective"
    non_preferred_slots,      \* list of slot labels
    add_prof_constraints,
    add_timeslot_capacity,
    add_student_conflicts,
    add_no_same_day,
    add_no_consec_days,
    max_classes_per_slot,
    pc,                       \* position of the driver in schedule_courses
    status,                   \* status returned by the latest solve_phase call
    schedule_df,              \* p5_df, then p6_df: the schedule the driver can return
    result,                   \* the (schedule, message) returned by schedule_courses
    solved,                   \* phases for which solve_phase was called, in call order
    searcher,                 \* the fields of a CourseConflictSearcher object
    call,                     \* the latest call on the searcher, with its arguments
    returned                  \* what that call returned

inputs == <<courses, student_course_map, course_professor_map,
            course_classes_per_week, course_type, non_preferred_slots,
            add_prof_constraints, add_timeslot_capacity, add_student_conflicts,
            add_no_same_day, add_no_consec_days, max_classes_per_slot>>

vars == <<courses, student_course_map, course_professor_map,
          course_classes_per_week, course_type, non_preferred_slots,
          add_prof_constraints, add_timeslot_capacity, add_student_conflicts,
          add_no_same_day, add_no_consec_days, max_classes_per_slot,
          pc, status, schedule_df, result, solved,
          searcher, call, returned>>

driver == <<inputs, pc, status, schedule_df, result, solved>>
analyzer == <<searcher, call, returned>>

----------------------------------------------------------------------------
(* Bounds of the explored inputs *)

MaxDemand == 2      \* course_classes_per_week values are drawn from 1..MaxDemand
MaxCap == 2         \* max_classes_per_slot is 1 or MaxCap

----------------------------------------------------------------------------
(* Slot labels are character sequences "<Day> <time-range>" *)

Monday == <<"M", "o", "n", "d", "a", "y">>
Tuesday == <<"T", "u", "e", "s", "d", "a", "y">>
Wednesday == <<"W", "e", "d", "n", "e", "s", "d", "a", "y">>
Thursday == <<"T", "h", "u", "r", "s", "d", "a", "y">>
Friday == <<"F", "r", "i", "d", "a", "y">>
Saturday == <<"S", "a", "t", "u", "r", "d", "a", "y">>
Sunday == <<"S", "u", "n", "d", "a", "y">>

day_order == <<Monday, Tuesday, Wednesday, Thursday, Friday, Saturday, Sunday>>

Mon9 == Monday \o <<" ", "9">>
Mon10 == <<" ">> \o Monday \o <<" ", "1", "0">>
Tue9 == Tuesday \o <<"\t", "9">>
Tue10 == Tuesday \o <<" ", "1", "0">>
Wed9 == Wednesday \o <<" ", "9">>

Slots == {Mon9, Mon10, Tue9, Tue10, Wed9}

Whitespace == {" ", "\t", "\n"}

RECURSIVE SkipWhitespace(_)
SkipWhitespace(s) ==
    IF s = <<>> THEN <<>>
    ELSE IF Head(s) \in Whitespace THEN SkipWhitespace(Tail(s))
    ELSE s

RECURSIVE FirstToken(_)
FirstToken(s) ==
    IF s = <<>> THEN <<>>
    ELSE IF Head(s) \in Whitespace THEN <<>>
    ELSE <<Head(s)>> \o FirstToken(Tail(s))

\* mutant: time_slot.split(" ")[0]
get_day_from_time_slot_SplitOnBlank(time_slot) == FirstToken(time_slot)

\* time_slot.split()[0]
get_day_from_time_slot(time_slot) == FirstToken(SkipWhitespace(time_slot))

\* get_day_from_time_slot of every slot label in use
slot_day == [s \in Slots |-> get_day_from_time_slot(s)]

----------------------------------------------------------------------------
(* Python containers *)

CourseIds == {"A", "B", "C"}
CourseOrder == <<"A", "B", "C">>
Professors == {"P", "Q"}
Students == {"s1", "s2"}

Range(s) == {s[i] : i \in DOMAIN s}

\* keys of a dict filled by successive d[k] = v, in insertion order
RECURSIVE DictKeys(_)
DictKeys(s) ==
    IF s = <<>> THEN <<>>
    ELSE LET h == DictKeys(SubSeq(s, 1, Len(s) - 1))
         IN  IF s[Len(s)] \in Range(h) THEN h ELSE Append(h, s[Len(s)])

\* number of occurrences of e in the list s
RECURSIVE Occurrences(_, _)
Occurrences(e, s) ==
    IF s = <<>> THEN 0
    ELSE (IF Head(s) = e THEN 1 ELSE 0) + Occurrences(e, Tail(s))

RECURSIVE SumOver(_, _)
SumOver(S, f) ==
    IF S = {} THEN 0
    ELSE LET e == CHOOSE e \in S : TRUE
         IN  f[e] + SumOver(S \ {e}, f)

\* iteration order of a dict whose keys were inserted in CourseOrder
ItemsOrder(d) == SelectSeq(CourseOrder, LAMBDA c : c \in DOMAIN d)

\* dict.get(key, default)
DictGet(d, key, default) == IF key \in DOMAIN d THEN d[key] ELSE default


----------------------------------------------------------------------------
(* solve_phase: the CP-SAT model *)

\* course_time_vars[c_id]: the slots that carry a decision variable, in
\* insertion order (a repeated label overwrites the entry of the first one)
course_time_vars(c_id) == DictKeys(courses[c_id]["time_slots"])

VarSlots(c_id) == Range(courses[c_id]["time_slots"])

\* A solver assignment: for each course the set of slots whose variable is 1.
\* Variables left out of course_time_vars by an overwritten dict entry occur
\* only in the capacity sums, where value 0 is always allowed.
RECURSIVE AssignmentsOf(_)
AssignmentsOf(cs) ==
    IF cs = <<>> THEN {<< >>}
    ELSE {(Head(cs) :> on) @@ x : on \in SUBSET VarSlots(Head(cs)), x \in AssignmentsOf(Tail(cs))}

Assignments == AssignmentsOf(ItemsOrder(courses))

needed(c_id) == DictGet(course_classes_per_week, c_id, 2)

\* PHASE 1) sum(slot_dict.values()) == needed
DemandHolds(x) == \A c \in DOMAIN courses : Cardinality(x[c]) = needed(c)

\* a professor entry: a str, a list of str, or None
Str(p) == [t |-> "str", v |-> <<p>>]
List(l) == [t |-> "list", v |-> l]
None == [t |-> "None", v |-> <<>>]

\* profs normalised to a list: a str is wrapped, None becomes []
ProfList(profs) ==
    IF profs.t = "str" THEN <<profs.v[1]>>
    ELSE IF profs.t = "None" THEN <<>>
    ELSE profs.v

\* prof_dict[prof]: the course ids appended for prof, with repetitions
RECURSIVE ProfCourses(_, _)
ProfCourses(prof, cs) ==
    IF cs = <<>> THEN <<>>
    ELSE LET n == Occurrences(prof, ProfList(course_professor_map[Head(cs)]))
         IN  [i \in 1..n |-> Head(cs)] \o ProfCourses(prof, Tail(cs))

prof_dict(prof) == ProfCourses(prof, ItemsOrder(course_professor_map))

ProfKeys == UNION {Range(ProfList(course_professor_map[c])) : c \in DOMAIN course_professor_map}

\* slot_map[s] of a list of course ids: the entries that have a variable for s
SlotMap(c_list, s) ==
    SelectSeq(c_list, LAMBDA c : c \in DOMAIN courses /\ s \in VarSlots(c))

\* sum(var_list) under assignment x
RECURSIVE SumVars(_, _, _)
SumVars(var_list, s, x) ==
    IF var_list = <<>> THEN 0
    ELSE (IF s \in x[Head(var_list)] THEN 1 ELSE 0) + SumVars(Tail(var_list), s, x)

\* mutant: AddAtMostOne only for more than two variables
ProfHolds_MoreThanTwo(x) ==
    \A prof \in ProfKeys : \A s \in Slots :
        LET var_list == SlotMap(prof_dict(prof), s)
        IN  Len(var_list) > 2 => SumVars(var_list, s, x) <= 1

\* PHASE 2) AddAtMostOne(var_list) for every professor and slot with several variables
ProfHolds(x) ==
    \A prof \in ProfKeys : \A s \in Slots :
        LET var_list == SlotMap(prof_dict(prof), s)
        IN  Len(var_list) > 1 => SumVars(var_list, s, x) <= 1

\* mutant: the capacity is off by one
CapacityHolds_OffByOne(x) ==
    \A s \in Slots :
        Cardinality({c \in DOMAIN courses : s \in x[c]}) <= max_classes_per_slot + 1

\* PHASE 3) sum(var_list) <= MAX_CLASSES_PER_SLOT for every slot
CapacityHolds(x) ==
    \A s \in Slots :
        Cardinality({c \in DOMAIN courses : s \in x[c]}) <= max_classes_per_slot

\* PHASE 5) at most one session of a course per day
SameDayHolds(x) ==
    \A c \in DOMAIN courses :
        \A day \in {slot_day[s] : s \in VarSlots(c)} :
            LET var_list == {s \in VarSlots(c) : slot_day[s] = day}
            IN  Cardinality(var_list) > 1 => Cardinality(var_list \cap x[c]) <= 1

HardHolds(x, add_prof, add_cap, add_same) ==
    /\ DemandHolds(x)
    /\ add_prof => ProfHolds(x)
    /\ add_cap => CapacityHolds(x)
    /\ add_same => SameDayHolds(x)

\* PHASE 4) conflict_{student}_{s} = 1 iff sum(var_list) >= 2
ConflictVars(x) ==
    {ts \in (DOMAIN student_course_map) \X Slots :
        LET var_list == SlotMap(student_course_map[ts[1]], ts[2])
        IN  Len(var_list) > 1 /\ SumVars(var_list, ts[2], x) >= 2}

required_courses(student_id) ==
    SelectSeq(student_course_map[student_id],
              LAMBDA c : DictGet(course_type, c, "Elective") = "Required")

\* req_conflict_{student}_{s} = 1 iff sum(var_list) >= 2 over the Required courses
ConflictRequiredVars(x) ==
    {ts \in (DOMAIN student_course_map) \X Slots :
        LET var_list == SlotMap(required_courses(ts[1]), ts[2])
        IN  Len(var_list) > 1 /\ SumVars(var_list, ts[2], x) >= 2}

\* the variables of non-preferred slots that are 1
SlotPenaltyVars(x) ==
    {cs \in (DOMAIN courses) \X Slots :
        cs[2] \in x[cs[1]] /\ cs[2] \in Range(non_preferred_slots)}

\* PHASE 6) the consec_{c}_{d1}_{d2} flags created while slot k of the course
\* is visited: day_vars holds the first k slots only
ConsecAt(c, k, x) ==
    LET seen == {course_time_vars(c)[j] : j \in 1..k}
        on(d) == \E s \in seen : slot_day[s] = d /\ s \in x[c]
        in_day_vars(d) == \E s \in seen : slot_day[s] = d
    IN  Cardinality({i \in 1..(Len(day_order) - 1) :
            /\ in_day_vars(day_order[i]) /\ in_day_vars(day_order[i + 1])
            /\ on(day_order[i]) /\ on(day_order[i + 1])})

ConsecViolations(x) ==
    SumOver(DOMAIN courses,
            [c \in DOMAIN courses |->
                SumOver(1..Len(course_time_vars(c)),
                        [k \in 1..Len(course_time_vars(c)) |-> ConsecAt(c, k, x)])])

STUDENT_CONFLICT_WEIGHT == 10000
REQUIRED_CONFLICT_WEIGHT == 10
NON_PREFERRED_SLOTS == 50
CONSEC_CONFLICT_WEIGHT == 100

total_penalty(x, add_conf, add_same, add_consec) ==
      (IF add_conf THEN STUDENT_CONFLICT_WEIGHT * Cardinality(ConflictVars(x)) ELSE 0)
    + (IF add_same THEN REQUIRED_CONFLICT_WEIGHT * Cardinality(ConflictRequiredVars(x)) ELSE 0)
    + NON_PREFERRED_SLOTS * Cardinality(SlotPenaltyVars(x))
    + (IF add_consec THEN CONSEC_CONFLICT_WEIGHT * ConsecViolations(x) ELSE 0)

\* the assignments that satisfy the hard constraints of the model
FeasibleSet(add_prof, add_cap, add_same) ==
    {x \in Assignments : HardHolds(x, add_prof, add_cap, add_same)}

\* rows of schedule_df: one per variable that is 1, courses then slots in dict order
RECURSIVE Rows(_, _)
Rows(cs, x) ==
    IF cs = <<>> THEN <<>>
    ELSE LET c == Head(cs)
             chosen == SelectSeq(course_time_vars(c), LAMBDA s : s \in x[c])
         IN  [i \in 1..Len(chosen) |-> <<c, chosen[i]>>] \o Rows(Tail(cs), x)

EmptyDataFrame == <<>>

\* mutant: the student-clash family forbids clashes instead of pricing them
solve_phase_ClashForbidden(add_prof, add_cap, add_conf, add_same, add_consec) ==
    LET F == {x \in FeasibleSet(add_prof, add_cap, add_same) :
                 add_conf => ConflictVars(x) = {}}
        order == ItemsOrder(courses)
    IN  IF F = {}
        THEN {[status |-> "INFEASIBLE", df |-> EmptyDataFrame],
              [status |-> "UNKNOWN", df |-> EmptyDataFrame]}
        ELSE {[status |-> "OPTIMAL", df |-> Rows(order, x)] : x \in F}
             \cup {[status |-> "UNKNOWN", df |-> EmptyDataFrame]}

\* The (status, schedule_df) pairs solve_phase can return
solve_phase(add_prof, add_cap, add_conf, add_same, add_consec) ==
    LET F == FeasibleSet(add_prof, add_cap, add_same)
        obj == [x \in F |-> total_penalty(x, add_conf, add_same, add_consec)]
        best == CHOOSE m \in {obj[x] : x \in F} : \A y \in F : m <= obj[y]
        Opt == {x \in F : obj[x] = best}
        order == ItemsOrder(courses)
    IN  IF F = {}
        THEN {[status |-> "INFEASIBLE", df |-> EmptyDataFrame],
              [status |-> "UNKNOWN", df |-> EmptyDataFrame]}
        ELSE {[status |-> "OPTIMAL", df |-> Rows(order, x)] : x \in Opt}
             \cup {[status |-> "FEASIBLE", df |-> Rows(order, x)] : x \in F}
             \cup {[status |-> "UNKNOWN", df |-> EmptyDataFrame]}

----------------------------------------------------------------------------
(* Diagnostics and messages *)

\* diagnose_phase1_conflicts: the problem_courses list
RECURSIVE Phase1Problems(_)
Phase1Problems(cs) ==
    IF cs = <<>> THEN <<>>
    ELSE LET course_id == Head(cs)
             classes_needed == course_classes_per_week[course_id]
             course_data == IF course_id \in DOMAIN courses THEN courses[course_id] ELSE << >>
             lens == {Len(course_data[professor]) : professor \in DOMAIN course_data}
             max_available == IF lens = {} THEN 0 ELSE CHOOSE m \in lens : \A l \in lens : l <= m
         IN  IF course_id \notin DOMAIN courses
             THEN <<[course |-> course_id, needed |-> classes_needed, available |-> 0,
                     issue |-> "Course not found in availability data"]>>
                  \o Phase1Problems(Tail(cs))
             ELSE IF classes_needed > max_available
             THEN <<[course |-> course_id, needed |-> classes_needed,
                     available |-> max_available, issue |-> "Insufficient time slots"]>>
                  \o Phase1Problems(Tail(cs))
             ELSE Phase1Problems(Tail(cs))

diagnose_phase1_conflicts ==
    [kind |-> "diagnostic", phase |-> 1,
     problem_courses |-> Phase1Problems(ItemsOrder(course_classes_per_week))]

\* prof_dict as the diagnostics build it: the professors in order of first
\* appearance over course_professor_map.items()
RECURSIVE AllProfEntries(_)
AllProfEntries(cs) ==
    IF cs = <<>> THEN <<>>
    ELSE ProfList(course_professor_map[Head(cs)]) \o AllProfEntries(Tail(cs))

prof_dict_keys == DictKeys(AllProfEntries(ItemsOrder(course_professor_map)))

RECURSIVE SumSeq(_, _)
SumSeq(s, f) ==
    IF s = <<>> THEN 0 ELSE f[Head(s)] + SumSeq(Tail(s), f)

\* the professor's slot count: looked up under the professor's key in the entry
\* of the first course, else in the first listed course that has such a key
AvailableSlotsOf(professor, course_list) ==
    LET prof_courses == IF course_list[1] \in DOMAIN courses THEN courses[course_list[1]]
                        ELSE << >>
        having == SelectSeq(course_list,
                            LAMBDA c : c \in DOMAIN courses /\ professor \in DOMAIN courses[c])
    IN  IF professor \in DOMAIN prof_courses THEN Len(prof_courses[professor])
        ELSE IF having # <<>> THEN Len(courses[having[1]][professor])
        ELSE 0

Phase2Professor(professor) ==
    LET course_list == prof_dict(professor)
        total_classes_needed ==
            SumSeq(course_list,
                   [c \in Range(course_list) |-> DictGet(course_classes_per_week, c, 0)])
        available_slots == AvailableSlotsOf(professor, course_list)
    IN  [professor |-> professor,
         assigned_courses |-> course_list,
         total_classes_needed |-> total_classes_needed,
         available_slots |-> available_slots,
         status |-> IF total_classes_needed > available_slots THEN "CRITICAL"
                    ELSE IF total_classes_needed = available_slots THEN "WARNING"
                    ELSE "OK"]

\* `not profs`: None, an empty list or an empty string
IsUnassigned(profs) ==
    \/ profs.t = "None"
    \/ profs.t = "list" /\ profs.v = <<>>
    \/ profs.t = "str" /\ profs.v[1] = ""

diagnose_phase2_conflicts ==
    LET professors == [i \in 1..Len(prof_dict_keys) |-> Phase2Professor(prof_dict_keys[i])]
        critical == SelectSeq(professors, LAMBDA r : r.status = "CRITICAL")
    IN  [kind |-> "diagnostic", phase |-> 2,
         professors |-> professors,
         critical_professors |-> [i \in 1..Len(critical) |-> critical[i].professor],
         unassigned_courses |->
             SelectSeq(ItemsOrder(course_professor_map),
                       LAMBDA c : IsUnassigned(course_professor_map[c]))]

\* the slots of every list of every course entry, whatever its key
AllEntrySlots ==
    UNION {UNION {Range(courses[c][k]) : k \in DOMAIN courses[c]} : c \in DOMAIN courses}

diagnose_phase3_conflicts ==
    LET total_classes == SumOver(DOMAIN course_classes_per_week, course_classes_per_week)
        total_capacity == Cardinality(AllEntrySlots) * max_classes_per_slot
        listed == ItemsOrder(course_classes_per_week)
    IN  [kind |-> "diagnostic", phase |-> 3,
         total_classes |-> total_classes,
         available_time_slots |-> Cardinality(AllEntrySlots),
         max_classes_per_slot |-> max_classes_per_slot,
         total_capacity |-> total_capacity,
         capacity_deficit |-> total_classes - total_capacity,
         courses |-> [i \in 1..Len(listed) |->
                         <<listed[i], course_classes_per_week[listed[i]]>>]]

diagnose_phase4_conflicts ==
    LET listed == ItemsOrder(course_professor_map)
        prof_list(profs) == IF profs.t = "str" THEN <<profs.v[1]>>
                            ELSE IF profs.t = "list" THEN profs.v
                            ELSE <<"No professor assigned">>
    IN  [kind |-> "diagnostic", phase |-> 4,
         assignments |-> [i \in 1..Len(listed) |->
                             <<listed[i], prof_list(course_professor_map[listed[i]])>>]]

Phase5Course(course_id) ==
    LET classes == course_classes_per_week[course_id]
        entry_slots == IF course_id \in DOMAIN courses
                       THEN UNION {Range(courses[course_id][k]) : k \in DOMAIN courses[course_id]}
                       ELSE {}
        available_days == {slot_day[s] : s \in entry_slots}
    IN  [course |-> course_id,
         classes_needed |-> classes,
         available_days |-> available_days,
         status |-> IF classes <= Cardinality(available_days) THEN "OK" ELSE "PROBLEM"]

diagnose_phase5_conflicts ==
    LET multi_class_courses ==
            SelectSeq(ItemsOrder(course_classes_per_week),
                      LAMBDA c : course_classes_per_week[c] > 1)
    IN  [kind |-> "diagnostic", phase |-> 5,
         courses |-> [i \in 1..Len(multi_class_courses) |-> Phase5Course(multi_class_courses[i])]]

diagnose_phase6_conflicts ==
    LET all_available_days == {slot_day[s] : s \in AllEntrySlots}
        available_ordered_days == SelectSeq(day_order, LAMBDA d : d \in all_available_days)
        index(d) == CHOOSE i \in DOMAIN day_order : day_order[i] = d
        pairs == SelectSeq([i \in 1..(Len(available_ordered_days) - 1) |->
                               <<available_ordered_days[i], available_ordered_days[i + 1]>>],
                           LAMBDA p : index(p[2]) = index(p[1]) + 1)
    IN  [kind |-> "diagnostic", phase |-> 6,
         available_days |-> available_ordered_days,
         multi_class_courses |->
             Cardinality({c \in DOMAIN course_classes_per_week : course_classes_per_week[c] > 1}),
         consecutive_pairs |-> pairs]

\* "Schedule found through PHASE n constraints."
SuccessMessage(n) == [kind |-> "success", phase |-> n]

\* "CRITICAL ERROR: No time slots available across all courses!"
CriticalError == [kind |-> "critical"]

NoResult == [schedule |-> EmptyDataFrame, message |-> [kind |-> "none"]]

----------------------------------------------------------------------------
(* schedule_courses: the driver *)

\* mutant: every key of a course entry is read as a slot list
all_available_slots_AnyKey ==
    UNION {UNION {Range(courses[c][k]) : k \in DOMAIN courses[c]} : c \in DOMAIN courses}

all_available_slots ==
    UNION {Range(DictGet(courses[c], "time_slots", <<>>)) : c \in DOMAIN courses}

\* Early validation: no time slot at all is a critical error
EarlyValidation ==
    /\ pc = "start"
    /\ IF Cardinality(all_available_slots) = 0
       THEN /\ result' = [schedule |-> EmptyDataFrame, message |-> CriticalError]
            /\ pc' = "done"
       ELSE /\ pc' = "precheck"
            /\ UNCHANGED result
    /\ UNCHANGED <<inputs, status, schedule_df, solved, analyzer>>

\* The pre-check loop over courses.items(): the first course that has no
\* "time_slots" entry raises KeyError, the first one with needed > possible returns
RECURSIVE PreCheckLoop(_)
PreCheckLoop(cs) ==
    IF cs = <<>> THEN [kind |-> "passed"]
    ELSE LET c_id == Head(cs)
             info == courses[c_id]
         IN  IF "time_slots" \notin DOMAIN info THEN [kind |-> "KeyError"]
             ELSE IF needed(c_id) > Len(info["time_slots"])
             THEN [kind |-> "precheck", course |-> c_id, needed |-> needed(c_id),
                   possible |-> Len(info["time_slots"])]
             ELSE PreCheckLoop(Tail(cs))

PreCheck ==
    /\ pc = "precheck"
    /\ LET outcome == PreCheckLoop(ItemsOrder(courses))
       IN  IF outcome.kind = "passed"
           THEN pc' = "phase1" /\ UNCHANGED result
           ELSE IF outcome.kind = "KeyError"
           THEN pc' = "raised" /\ UNCHANGED result
           ELSE /\ result' = [schedule |-> EmptyDataFrame, message |-> outcome]
                /\ pc' = "done"
    /\ UNCHANGED <<inputs, status, schedule_df, solved, analyzer>>

\* One phase of the driver: call solve_phase, return the diagnostic when the
\* status is INFEASIBLE, go on otherwise
PhaseStep(n, here, next, diagnosis, add_prof, add_cap, add_conf, add_same, add_consec) ==
    /\ pc = here
    /\ \E r \in solve_phase(add_prof, add_cap, add_conf, add_same, add_consec) :
        /\ status' = r.status
        /\ schedule_df' = (IF n >= 5 THEN r.df ELSE schedule_df)  \* p1_df..p4_df are never read
        /\ solved' = Append(solved, n)
        /\ IF r.status = "INFEASIBLE"
           THEN /\ result' = [schedule |-> EmptyDataFrame, message |-> diagnosis]
                /\ pc' = "done"
           ELSE IF n = 6
           THEN /\ result' = [schedule |-> r.df, message |-> SuccessMessage(6)]
                /\ pc' = "done"
           ELSE /\ pc' = next
                /\ UNCHANGED result
    /\ UNCHANGED <<inputs, analyzer>>

\* mutant: phase 1 is solved with the one-per-day family
Phase1_WithSameDay ==
    PhaseStep(1, "phase1", "phase2", diagnose_phase1_conflicts,
              FALSE, FALSE, FALSE, TRUE, FALSE)

Phase1 ==
    PhaseStep(1, "phase1", "phase2", diagnose_phase1_conflicts,
              FALSE, FALSE, FALSE, FALSE, FALSE)

Phase2 ==
    PhaseStep(2, "phase2", "phase3", diagnose_phase2_conflicts,
              add_prof_constraints, FALSE, FALSE, FALSE, FALSE)

\* mutant: phase 3 is solved without the instructor family
Phase3_WithoutProf ==
    PhaseStep(3, "phase3", "phase4", diagnose_phase3_conflicts,
              FALSE, add_timeslot_capacity, FALSE, FALSE, FALSE)

Phase3 ==
    PhaseStep(3, "phase3", "phase4", diagnose_phase3_conflicts,
              add_prof_constraints, add_timeslot_capacity, FALSE, FALSE, FALSE)

Phase4 ==
    PhaseStep(4, "phase4", "phase5", diagnose_phase4_conflicts,
              add_prof_constraints, add_timeslot_capacity, add_student_conflicts,
              FALSE, FALSE)

\* mutant: phase 5 is solved without the same-day family
Phase5_WithoutSameDay ==
    PhaseStep(5, "phase5", "after5", diagnose_phase5_conflicts,
              add_prof_constraints, add_timeslot_capacity, add_student_conflicts,
              FALSE, FALSE)

Phase5 ==
    PhaseStep(5, "phase5", "after5", diagnose_phase5_conflicts,
              add_prof_constraints, add_timeslot_capacity, add_student_conflicts,
              add_no_same_day, FALSE)

Phase6 ==
    /\ add_no_consec_days
    /\ PhaseStep(6, "after5", "done", diagnose_phase6_conflicts,
                 add_prof_constraints, add_timeslot_capacity, add_student_conflicts,
                 add_no_same_day, add_no_consec_days)

\* return p5_df, "Schedule found through PHASE 5 constraints."
ReturnPhase5 ==
    /\ pc = "after5"
    /\ ~add_no_consec_days
    /\ result' = [schedule |-> schedule_df, message |-> SuccessMessage(5)]
    /\ pc' = "done"
    /\ UNCHANGED <<inputs, status, schedule_df, solved, analyzer>>

----------------------------------------------------------------------------
(* CourseConflictSearcher: strings *)

\* str.lower() on the letters that occur in the course ids and queries
UpperToLower ==
    ("A" :> "a") @@ ("B" :> "b") @@ ("C" :> "c") @@ ("D" :> "d") @@ ("G" :> "g")
    @@ ("L" :> "l") @@ ("O" :> "o")

lower(s) == [i \in DOMAIN s |-> IF s[i] \in DOMAIN UpperToLower THEN UpperToLower[s[i]] ELSE s[i]]

\* `sub in s` for strings
Contains(sub, s) ==
    \E i \in 0..(Len(s) - Len(sub)) : SubSeq(s, i + 1, i + Len(sub)) = sub

\* str.split(): the maximal runs of non-whitespace characters
RECURSIVE split(_)
split(s) ==
    LET t == SkipWhitespace(s)
        token == FirstToken(t)
    IN  IF t = <<>> THEN <<>>
        ELSE <<token>> \o split(SubSeq(t, Len(token) + 1, Len(t)))

\* code points of the characters in use
ord ==
    ("\t" :> 9) @@ (" " :> 32)
    @@ ("0" :> 48) @@ ("1" :> 49) @@ ("2" :> 50) @@ ("3" :> 51) @@ ("4" :> 52)
    @@ ("5" :> 53) @@ ("6" :> 54) @@ ("9" :> 57)
    @@ ("A" :> 65) @@ ("B" :> 66) @@ ("C" :> 67) @@ ("D" :> 68) @@ ("G" :> 71)
    @@ ("L" :> 76) @@ ("M" :> 77) @@ ("O" :> 79) @@ ("T" :> 84)
    @@ ("a" :> 97) @@ ("b" :> 98) @@ ("c" :> 99) @@ ("d" :> 100) @@ ("e" :> 101)
    @@ ("g" :> 103) @@ ("l" :> 108) @@ ("n" :> 110) @@ ("o" :> 111) @@ ("s" :> 115)
    @@ ("u" :> 117) @@ ("x" :> 120) @@ ("y" :> 121) @@ ("z" :> 122)

\* a < b for strings
RECURSIVE StrLess(_, _)
StrLess(a, b) ==
    IF b = <<>> THEN FALSE
    ELSE IF a = <<>> THEN TRUE
    ELSE IF Head(a) # Head(b) THEN ord[Head(a)] < ord[Head(b)]
    ELSE StrLess(Tail(a), Tail(b))

\* sorted(S) for a set of strings
RECURSIVE sorted(_)
sorted(S) ==
    IF S = {} THEN <<>>
    ELSE LET least == CHOOSE a \in S : \A b \in S \ {a} : StrLess(a, b)
         IN  <<least>> \o sorted(S \ {least})

----------------------------------------------------------------------------
(* CourseConflictSearcher: the object and its methods *)

\* course ids of the analysed schedules
Algo == <<"A", "l", "g", "o">>
DB == <<"D", "B">>
NumberedCourse(d) == <<"c", d>>

StudentOrder == <<"s1", "s2", "s3">>

\* student_course_map.items() in insertion order
StudentItems(m) == SelectSeq(StudentOrder, LAMBDA s : s \in DOMAIN m)

\* the rows of a course, in row order
RowSlots(df, course) ==
    LET rows == SelectSeq(df, LAMBDA row : row[1] = course)
    IN  [i \in 1..Len(rows) |-> rows[i][2]]

\* schedule_df.groupby('Course ID')['Scheduled Time'].apply(list).to_dict()
_build_schedule_lookup(df) ==
    [course \in {row[1] : row \in Range(df)} |-> RowSlots(df, course)]

\* the keys of schedule_lookup: groupby sorts the groups by key
LookupKeys(self) == sorted(DOMAIN self.schedule_lookup)

\* student_schedule[timeslot]: the student's courses that have a row for the
\* slot, one entry per listed course and row
RECURSIVE SlotCourses(_, _, _)
SlotCourses(lookup, enrolled, timeslot) ==
    IF enrolled = <<>> THEN <<>>
    ELSE LET course == Head(enrolled)
             n == IF course \in DOMAIN lookup THEN Occurrences(timeslot, lookup[course]) ELSE 0
         IN  [i \in 1..n |-> course] \o SlotCourses(lookup, Tail(enrolled), timeslot)

_build_student_schedule_lookup(lookup, enrollment) ==
    [student_id \in DOMAIN enrollment |->
        LET used == UNION {Range(lookup[c]) : c \in Range(enrollment[student_id]) \cap DOMAIN lookup}
        IN  [timeslot \in used |-> SlotCourses(lookup, enrollment[student_id], timeslot)]]

\* __init__
CourseConflictSearcher(df, enrollment, professors, busy, types, ignore_busy, ignore_teaching) ==
    LET lookup == _build_schedule_lookup(df)
    IN  [schedule_df |-> df,
         student_course_map |-> enrollment,
         course_professor_map |-> professors,
         professor_busy_slots |-> busy,
         course_type_map |-> types,
         ignore_professor_busy_slots |-> ignore_busy,
         ignore_professor_teaching_conflicts |-> ignore_teaching,
         schedule_lookup |-> lookup,
         student_schedule_lookup |-> _build_student_schedule_lookup(lookup, enrollment)]

get_professor_constraint_options(self) ==
    [ignore_professor_busy_slots |-> self.ignore_professor_busy_slots,
     ignore_professor_teaching_conflicts |-> self.ignore_professor_teaching_conflicts]

\* a str is wrapped into a list
AsList(profs) == IF profs.t = "str" THEN <<profs.v[1]>> ELSE profs.v

\* `not course_professors`: an empty list or an empty string
NoProfessor(profs) == profs.v = <<>> \/ (profs.t = "str" /\ profs.v[1] = "")

\* Check 2: the professor is listed for another course that has a row for the slot
TeachesElsewhere(self, professor, course_id, time_slot) ==
    \E other_course_id \in DOMAIN self.course_professor_map :
        /\ other_course_id # course_id
        /\ professor \in Range(AsList(self.course_professor_map[other_course_id]))
        /\ time_slot \in Range(DictGet(self.schedule_lookup, other_course_id, <<>>))

\* mutant: the teaching-conflict check does not honour its ignore option
_is_professor_available_TeachingAlwaysChecked(self, course_id, time_slot) ==
    IF self.course_professor_map = << >> THEN TRUE
    ELSE LET course_professors == DictGet(self.course_professor_map, course_id, List(<<>>))
         IN  IF NoProfessor(course_professors) THEN TRUE
             ELSE \A professor \in Range(AsList(course_professors)) :
                    /\ ~( /\ ~self.ignore_professor_busy_slots
                          /\ self.professor_busy_slots # << >>
                          /\ time_slot \in Range(DictGet(self.professor_busy_slots, professor, <<>>)) )
                    /\ ~TeachesElsewhere(self, professor, course_id, time_slot)

\* course_professor_map.items() in insertion order
SearcherCourseOrder == <<Algo, DB, NumberedCourse("1"), <<"A">>, <<"B">>, <<"C">>>>

\* Check 2 for one professor, over the other courses in map order: "False" at
\* the first other course of the professor that has a row for the slot,
\* "TypeError" at the first entry that is None (`professor in None`), "pass"
\* at the end of the loop
RECURSIVE TeachingCheck(_, _, _, _, _)
TeachingCheck(self, others, professor, course_id, time_slot) ==
    IF others = <<>> THEN "pass"
    ELSE LET other_course_id == Head(others)
             other_professors == self.course_professor_map[other_course_id]
         IN  IF other_course_id = course_id
             THEN TeachingCheck(self, Tail(others), professor, course_id, time_slot)
             ELSE IF other_professors.t = "None" THEN "TypeError"
             ELSE IF /\ professor \in Range(AsList(other_professors))
                     /\ time_slot \in Range(DictGet(self.schedule_lookup, other_course_id, <<>>))
             THEN "False"
             ELSE TeachingCheck(self, Tail(others), professor, course_id, time_slot)

\* the loop over the professors of the course: the first failed check returns
RECURSIVE ProfessorLoop(_, _, _, _)
ProfessorLoop(self, course_professors, course_id, time_slot) ==
    IF course_professors = <<>> THEN "True"
    ELSE LET professor == Head(course_professors)
             busy == /\ ~self.ignore_professor_busy_slots
                     /\ self.professor_busy_slots # << >>
                     /\ time_slot \in Range(DictGet(self.professor_busy_slots, professor, <<>>))
             teaching == IF self.ignore_professor_teaching_conflicts THEN "pass"
                         ELSE TeachingCheck(self, SelectSeq(SearcherCourseOrder, LAMBDA c : c \in DOMAIN self.course_professor_map),
                                            professor, course_id, time_slot)
         IN  IF busy THEN "False"
             ELSE IF teaching # "pass" THEN teaching
             ELSE ProfessorLoop(self, Tail(course_professors), course_id, time_slot)

\* what the call does: returns True, returns False or raises TypeError
ProfessorAvailability(self, course_id, time_slot) ==
    IF self.course_professor_map = << >> THEN "True"
    ELSE LET course_professors == DictGet(self.course_professor_map, course_id, List(<<>>))
         IN  IF NoProfessor(course_professors) THEN "True"
             ELSE ProfessorLoop(self, AsList(course_professors), course_id, time_slot)

\* the value returned (read only when the call returns)
_is_professor_available(self, course_id, time_slot) ==
    ProfessorAvailability(self, course_id, time_slot) = "True"

\* the students whose course list contains course_id, in map order
CourseStudents(self, course_id) ==
    SelectSeq(StudentItems(self.student_course_map),
              LAMBDA student : course_id \in Range(self.student_course_map[student]))

WithTypes(self, course_list) ==
    [i \in 1..Len(course_list) |->
        [course_name |-> course_list[i],
         course_type |-> DictGet(self.course_type_map, course_list[i], "Unknown")]]

\* student_schedule.get(time_slot, []) of self.student_schedule_lookup.get(student, {})
StudentSlotCourses(self, student, time_slot) ==
    DictGet(DictGet(self.student_schedule_lookup, student, << >>), time_slot, <<>>)

\* a ratio len(a) / len(b), kept exact; 0 when the denominator is empty
Ratio(n, d) == IF d = 0 THEN [num |-> 0, den |-> 1] ELSE [num |-> n, den |-> d]

\* mutant: the course itself is not left out of the conflicting courses
ConflictingCourses_IncludingItself(self, student, course_id, time_slot) ==
    StudentSlotCourses(self, student, time_slot)

\* [c for c in slot_courses if c != course_id]
ConflictingCourses(self, student, course_id, time_slot) ==
    SelectSeq(StudentSlotCourses(self, student, time_slot), LAMBDA c : c # course_id)

_analyze_slot_conflicts(self, course_id, time_slot) ==
    LET course_students == CourseStudents(self, course_id)
        conflicting_courses(student) == ConflictingCourses(self, student, course_id, time_slot)
        conflicted_students ==
            SelectSeq(course_students,
                      LAMBDA student :
                          /\ Len(StudentSlotCourses(self, student, time_slot)) > 1
                          /\ conflicting_courses(student) # <<>>)
        conflicts ==
            [i \in 1..Len(conflicted_students) |->
                [student_id |-> conflicted_students[i],
                 conflicting_courses |-> conflicting_courses(conflicted_students[i]),
                 conflicting_courses_with_types |->
                     WithTypes(self, conflicting_courses(conflicted_students[i])),
                 all_courses_in_slot |-> StudentSlotCourses(self, conflicted_students[i], time_slot),
                 conflict_type |-> "concurrent_enrollment",
                 time_slot |-> time_slot]]
        professor_available == _is_professor_available(self, course_id, time_slot)
    IN  [time_slot |-> time_slot,
         total_conflicts |-> Len(conflicts),
         conflicted_students |-> conflicted_students,
         conflict_details |-> conflicts,
         is_conflict_free |-> Len(conflicts) = 0,
         professor_available |-> professor_available,
         professor_constraint_violated |-> ~professor_available,
         total_enrolled |-> Len(course_students),
         conflict_free_students |-> Len(course_students) - Len(conflicted_students),
         conflict_rate |-> Ratio(Len(conflicts), Len(course_students))]

_analyze_potential_slot_conflicts(self, course_id, time_slot, enrolled_students) ==
    LET conflicted_students ==
            SelectSeq(enrolled_students,
                      LAMBDA student : StudentSlotCourses(self, student, time_slot) # <<>>)
        potential_conflicts ==
            [i \in 1..Len(conflicted_students) |->
                LET existing_courses_in_slot ==
                        StudentSlotCourses(self, conflicted_students[i], time_slot)
                IN  [student_id |-> conflicted_students[i],
                     conflicting_courses |-> existing_courses_in_slot,
                     conflicting_courses_with_types |-> WithTypes(self, existing_courses_in_slot),
                     would_conflict_with |-> existing_courses_in_slot,
                     conflict_type |-> "student_schedule_conflict"]]
        professor_available == _is_professor_available(self, course_id, time_slot)
    IN  [time_slot |-> time_slot,
         potential_conflicts |-> Len(potential_conflicts),
         would_be_conflicted_students |-> conflicted_students,
         conflict_details |-> potential_conflicts,
         would_be_conflict_free |-> Len(potential_conflicts) = 0 /\ professor_available,
         conflict_free_students |-> Len(enrolled_students) - Len(conflicted_students),
         total_enrolled |-> Len(enrolled_students),
         professor_available |-> professor_available,
         professor_constraint |-> ~professor_available,
         student_conflicts |-> potential_conflicts,
         conflict_rate |-> Ratio(Len(potential_conflicts), Len(enrolled_students))]

\* mutant: the rate is left as a fraction instead of a percentage
ConflictRate_Fraction(conflicted, enrolled) ==
    IF enrolled # 0 THEN [num |-> conflicted, den |-> enrolled]
    ELSE [num |-> 0, den |-> 1]

\* (len(conflicted_students) / len(enrolled_students) * 100) if enrolled_students else 0
ConflictRate(conflicted, enrolled) ==
    IF enrolled # 0 THEN [num |-> 100 * conflicted, den |-> enrolled]
    ELSE [num |-> 0, den |-> 1]

\* the analysis of a course raises when one of its availability checks does:
\* every slot of the schedule is checked, as a current or as an alternative slot
AnalysisRaises(self, course_id) ==
    \E slot \in UNION {Range(self.schedule_lookup[c]) : c \in DOMAIN self.schedule_lookup} :
        ProfessorAvailability(self, course_id, slot) = "TypeError"

\* mutant: the slots in which the instructor is unavailable are dropped
_analyze_single_course_DropsUnavailable(self, course_id) ==
    LET scheduled_slots == DictGet(self.schedule_lookup, course_id, <<>>)
        enrolled_students == CourseStudents(self, course_id)
        all_time_slots ==
            sorted(UNION {Range(self.schedule_lookup[c]) : c \in DOMAIN self.schedule_lookup})
        current_slot_analysis ==
            [slot \in Range(scheduled_slots) |-> _analyze_slot_conflicts(self, course_id, slot)]
        total_conflicts ==
            SumSeq(scheduled_slots,
                   [slot \in Range(scheduled_slots) |->
                       Len(current_slot_analysis[slot].conflicted_students)])
        conflicted_students ==
            UNION {Range(current_slot_analysis[slot].conflicted_students) :
                      slot \in Range(scheduled_slots)}
        alternative_slot_analysis ==
            [slot \in {t \in Range(all_time_slots) \ Range(scheduled_slots) :
                          _is_professor_available(self, course_id, t)} |->
                _analyze_potential_slot_conflicts(self, course_id, slot, enrolled_students)]
    IN  [course_id |-> course_id,
         scheduled_slots |-> scheduled_slots,
         total_enrolled_students |-> Len(enrolled_students),
         enrolled_students |-> enrolled_students,
         total_conflicted_students |-> Cardinality(conflicted_students),
         conflicted_students |-> conflicted_students,
         conflict_rate |-> ConflictRate(Cardinality(conflicted_students), Len(enrolled_students)),
         current_slot_analysis |-> current_slot_analysis,
         alternative_slot_analysis |-> alternative_slot_analysis,
         all_available_slots |-> all_time_slots,
         has_conflicts |-> total_conflicts > 0]

_analyze_single_course(self, course_id) ==
    LET scheduled_slots == DictGet(self.schedule_lookup, course_id, <<>>)
        enrolled_students == CourseStudents(self, course_id)
        all_time_slots ==
            sorted(UNION {Range(self.schedule_lookup[c]) : c \in DOMAIN self.schedule_lookup})
        current_slot_analysis ==
            [slot \in Range(scheduled_slots) |-> _analyze_slot_conflicts(self, course_id, slot)]
        total_conflicts ==
            SumSeq(scheduled_slots,
                   [slot \in Range(scheduled_slots) |->
                       Len(current_slot_analysis[slot].conflicted_students)])
        conflicted_students ==
            UNION {Range(current_slot_analysis[slot].conflicted_students) :
                      slot \in Range(scheduled_slots)}
        alternative_slot_analysis ==
            [slot \in Range(all_time_slots) \ Range(scheduled_slots) |->
                LET potential_conflicts ==
                        _analyze_potential_slot_conflicts(self, course_id, slot, enrolled_students)
                IN  IF potential_conflicts.professor_available THEN potential_conflicts
                    ELSE potential_conflicts @@ [excluded_reason |-> "Professor unavailable"]]
    IN  [course_id |-> course_id,
         scheduled_slots |-> scheduled_slots,
         total_enrolled_students |-> Len(enrolled_students),
         enrolled_students |-> enrolled_students,
         total_conflicted_students |-> Cardinality(conflicted_students),
         conflicted_students |-> conflicted_students,
         conflict_rate |-> ConflictRate(Cardinality(conflicted_students), Len(enrolled_students)),
         current_slot_analysis |-> current_slot_analysis,
         alternative_slot_analysis |-> alternative_slot_analysis,
         all_available_slots |-> all_time_slots,
         has_conflicts |-> total_conflicts > 0]

\* the first five courses, in key order, that contain a whitespace-separated
\* part of the lower-cased search term
_get_course_suggestions(self, course_name) ==
    LET search_parts == split(lower(course_name))
        suggestions ==
            SelectSeq(LookupKeys(self),
                      LAMBDA course : \E part \in Range(search_parts) :
                                          Contains(part, lower(course)))
    IN  SubSeq(suggestions, 1, IF Len(suggestions) < 5 THEN Len(suggestions) ELSE 5)

\* mutant: the search compares without folding the case
search_course_CaseSensitive(self, course_name) ==
    LET matching_courses ==
            SelectSeq(LookupKeys(self), LAMBDA course : Contains(course_name, course))
    IN  IF matching_courses = <<>>
        THEN [found |-> FALSE,
              message |-> course_name,
              suggestions |-> _get_course_suggestions(self, course_name)]
        ELSE [found |-> TRUE,
              courses |-> [course \in Range(matching_courses) |->
                              _analyze_single_course(self, course)],
              total_matches |-> Len(matching_courses)]

search_course(self, course_name) ==
    LET matching_courses ==
            SelectSeq(LookupKeys(self),
                      LAMBDA course : Contains(lower(course_name), lower(course)))
    IN  IF matching_courses = <<>>
        THEN [found |-> FALSE,
              message |-> course_name,
              suggestions |-> _get_course_suggestions(self, course_name)]
        ELSE IF \E course \in Range(matching_courses) : AnalysisRaises(self, course)
        THEN [exception |-> "TypeError"]
        ELSE [found |-> TRUE,
              courses |-> [course \in Range(matching_courses) |->
                              _analyze_single_course(self, course)],
              total_matches |-> Len(matching_courses)]

\* ', '.join(list)
RECURSIVE Join(_)
Join(list) ==
    IF list = <<>> THEN <<>>
    ELSE IF Len(list) = 1 THEN list[1]
    ELSE list[1] \o <<",", " ">> \o Join(Tail(list))

\* f"{rate:.1f}%": the rate rounded to tenths (ties to even), as integer part
\* and first decimal
FormatRate(rate) ==
    LET q == (10 * rate.num) \div rate.den
        r == (10 * rate.num) % rate.den
        tenths == IF 2 * r > rate.den THEN q + 1
                  ELSE IF 2 * r = rate.den THEN q + (q % 2)
                  ELSE q
    IN  [int |-> tenths \div 10, frac |-> tenths % 10]

\* The summary rows, one per key of schedule_lookup (the sort by descending
\* 'Conflicted Students' is not represented); with no row pandas raises
\* KeyError on the missing sort column, and an analysis that raises ends the call
get_course_summary_table(self) ==
    IF DOMAIN self.schedule_lookup = {} THEN [kind |-> "KeyError"]
    ELSE IF \E course_id \in DOMAIN self.schedule_lookup : AnalysisRaises(self, course_id)
    THEN [kind |-> "TypeError"]
    ELSE [kind |-> "DataFrame",
          rows |-> [course_id \in DOMAIN self.schedule_lookup |->
                      LET course_info == _analyze_single_course(self, course_id)
                      IN  [Course_ID |-> course_id,
                           Scheduled_Slots |-> Len(course_info.scheduled_slots),
                           Time_Slots |-> Join(course_info.scheduled_slots),
                           Total_Students |-> course_info.total_enrolled_students,
                           Conflicted_Students |-> course_info.total_conflicted_students,
                           Conflict_Rate |-> FormatRate(course_info.conflict_rate),
                           Has_Conflicts |-> IF course_info.has_conflicts THEN "Yes" ELSE "No"]]]

----------------------------------------------------------------------------
(* CourseConflictSearcher: calls on one searcher object *)

\* no searcher has been constructed
NoSearcher == [constructed |-> FALSE]
NoCall == [op |-> "none"]
NothingReturned == [kind |-> "none"]

\* an optional bool argument: None, True or False
NotGiven == [given |-> FALSE, value |-> FALSE]
Given(b) == [given |-> TRUE, value |-> b]
OptionalBool == {NotGiven, Given(TRUE), Given(FALSE)}

\* the search terms
Queries ==
    { <<>>,
      <<"a", "l", "g", "o">>,
      <<"A", "L", "G", "O">>,
      <<"b">>,
      <<"x">>,
      <<"z", "z", " ", "a", "l", "g", "o">>,
      <<"c", "\t", "x">> }

\* mutant: an argument left at None overwrites the option
set_professor_constraint_options_NoneOverwrites(ignore_busy_slots, ignore_teaching_conflicts) ==
    /\ call.op # "none"
    /\ searcher' =
          [searcher EXCEPT
              !.ignore_professor_busy_slots = ignore_busy_slots.value,
              !.ignore_professor_teaching_conflicts = ignore_teaching_conflicts.value]
    /\ call' = [op |-> "set_professor_constraint_options",
                ignore_busy_slots |-> ignore_busy_slots,
                ignore_teaching_conflicts |-> ignore_teaching_conflicts]
    /\ returned' = [kind |-> "None"]
    /\ UNCHANGED driver

set_professor_constraint_options(ignore_busy_slots, ignore_teaching_conflicts) ==
    /\ call.op # "none"
    /\ searcher' =
          [searcher EXCEPT
              !.ignore_professor_busy_slots =
                  IF ignore_busy_slots.given THEN ignore_busy_slots.value ELSE @,
              !.ignore_professor_teaching_conflicts =
                  IF ignore_teaching_conflicts.given THEN ignore_teaching_conflicts.value ELSE @]
    /\ call' = [op |-> "set_professor_constraint_options",
                ignore_busy_slots |-> ignore_busy_slots,
                ignore_teaching_conflicts |-> ignore_teaching_conflicts]
    /\ returned' = [kind |-> "None"]
    /\ UNCHANGED driver

SetOptions ==
    \E ignore_busy_slots, ignore_teaching_conflicts \in OptionalBool :
        set_professor_constraint_options(ignore_busy_slots, ignore_teaching_conflicts)

GetOptions ==
    /\ call.op # "none"
    /\ call' = [op |-> "get_professor_constraint_options"]
    /\ returned' = [kind |-> "options", value |-> get_professor_constraint_options(searcher)]
    /\ UNCHANGED <<driver, searcher>>

SearchCourse ==
    /\ call.op # "none"
    /\ \E course_name \in Queries :
        /\ call' = [op |-> "search_course", course_name |-> course_name]
        /\ returned' = [kind |-> "search", value |-> search_course(searcher, course_name)]
    /\ UNCHANGED <<driver, searcher>>

SummaryTable ==
    /\ call.op # "none"
    /\ call' = [op |-> "get_course_summary_table"]
    /\ returned' = [kind |-> "summary", value |-> get_course_summary_table(searcher)]
    /\ UNCHANGED <<driver, searcher>>

----------------------------------------------------------------------------
(* Inputs *)

SlotLists == {<<Mon9>>, <<Mon9, Mon10>>, <<Mon9, Tue9>>, <<Mon9, Mon10, Tue9>>}

TimeSlots(l) == ("time_slots" :> l)

\* course_info: the candidate list under "time_slots", or keyed by instructor
CourseInfos == {TimeSlots(l) : l \in SlotLists} \cup {("P" :> <<Mon9>>)}

CourseInfosB == {TimeSlots(<<Mon9>>), TimeSlots(<<Mon9, Tue9>>), ("P" :> <<Mon9>>)}

CourseMaps ==
    {<< >>, ("A" :> TimeSlots(<< >>))}
    \cup {("A" :> a) : a \in CourseInfos}
    \cup {("A" :> a) @@ ("B" :> b) : a \in CourseInfos, b \in CourseInfosB}
    \cup {("A" :> TimeSlots(l)) @@ ("B" :> TimeSlots(<<Mon9>>)) @@ ("C" :> TimeSlots(<<Mon9>>)) :
              l \in {<<Mon9>>, <<Mon9, Tue9>>}}

ProfessorMaps ==
    { << >>,
      ("A" :> Str("P")) @@ ("B" :> List(<<"Q", "P">>)),
      ("A" :> List(<<"P", "Q">>)) @@ ("B" :> Str("Q")),
      ("A" :> None) @@ ("B" :> List(<< >>)) }

DemandMaps ==
    UNION {[D -> 1..MaxDemand] : D \in SUBSET {"A", "B"}}
    \cup {[c \in CourseIds |-> 1]}

Init ==
    /\ courses \in CourseMaps
    /\ student_course_map = ("s1" :> <<"A", "B">>) @@ ("s2" :> <<"A">>)
    /\ course_professor_map \in ProfessorMaps
    /\ course_classes_per_week \in DemandMaps
    /\ course_type = ("A" :> "Required") @@ ("B" :> "Required")
    /\ non_preferred_slots = <<Tue9>>
    /\ add_prof_constraints \in BOOLEAN
    /\ add_timeslot_capacity \in BOOLEAN
    /\ add_student_conflicts \in BOOLEAN
    /\ add_no_same_day \in BOOLEAN
    /\ add_no_consec_days \in BOOLEAN
    /\ max_classes_per_slot \in {1, MaxCap}
    /\ pc = "start"
    /\ status = "none"
    /\ schedule_df = EmptyDataFrame
    /\ result = NoResult
    /\ solved = <<>>
    /\ searcher = NoSearcher
    /\ call = NoCall
    /\ returned = NothingReturned

Next ==
    \/ EarlyValidation
    \/ PreCheck
    \/ Phase1
    \/ Phase2
    \/ Phase3
    \/ Phase4
    \/ Phase5
    \/ Phase6
    \/ ReturnPhase5

Spec == Init /\ [][Next]_vars

TypeOK ==
    /\ pc \in {"start", "precheck", "phase1", "phase2", "phase3", "phase4", "phase5",
               "after5", "done", "raised", "idle"}
    /\ status \in {"none", "OPTIMAL", "FEASIBLE", "INFEASIBLE", "UNKNOWN"}

----------------------------------------------------------------------------
(* The searcher over fixed schedules and enrolments *)

ScheduleFrames ==
    { <<>>,
      <<<<Algo, Mon9>>, <<DB, Mon9>>>>,
      <<<<Algo, Mon9>>, <<DB, Mon10>>>>,
      <<<<Algo, Mon9>>, <<Algo, Tue9>>, <<DB, Mon9>>, <<DB, Tue9>>>>,
      <<<<Algo, Mon9>>, <<Algo, Mon9>>, <<DB, Mon9>>>>,
      [i \in 1..6 |-> <<NumberedCourse(<<"6", "5", "4", "3", "2", "1">>[i]), Mon9>>] }

Enrolments ==
    { << >>,
      ("s1" :> <<Algo, DB>>) @@ ("s2" :> <<Algo>>),
      ("s1" :> <<Algo, Algo, DB>>) @@ ("s2" :> <<DB>>) @@ ("s3" :> <<Algo>>),
      ("s1" :> <<DB>>),
      ("s1" :> <<Algo, DB>>) @@ ("s2" :> <<Algo>>) @@ ("s3" :> <<Algo>>) }

SearcherProfessorMaps ==
    { << >>,
      (Algo :> Str("P")) @@ (DB :> Str("P")),
      (Algo :> List(<<"P", "Q">>)) @@ (DB :> List(<<"Q">>)),
      (Algo :> List(<< >>)) @@ (DB :> Str("P")),
      (DB :> Str("P")) }

BusySlotMaps ==
    { << >>,
      ("P" :> <<Mon10>>),
      ("Q" :> <<Mon9>>) @@ ("P" :> <<Tue9>>) }

CourseTypeMaps == { << >>, (DB :> "Required") }

\* a searcher was constructed; the driver is not running
SearcherInit ==
    /\ courses = << >>
    /\ student_course_map = << >>
    /\ course_professor_map = << >>
    /\ course_classes_per_week = << >>
    /\ course_type = << >>
    /\ non_preferred_slots = <<>>
    /\ add_prof_constraints = TRUE
    /\ add_timeslot_capacity = TRUE
    /\ add_student_conflicts = TRUE
    /\ add_no_same_day = TRUE
    /\ add_no_consec_days = TRUE
    /\ max_classes_per_slot = 1
    /\ pc = "idle"
    /\ status = "none"
    /\ schedule_df = EmptyDataFrame
    /\ result = NoResult
    /\ solved = <<>>
    /\ \E df \in ScheduleFrames, enrollment \in Enrolments, professors \in SearcherProfessorMaps,
          busy \in BusySlotMaps, types \in CourseTypeMaps,
          ignore_busy \in BOOLEAN, ignore_teaching \in BOOLEAN :
            searcher = CourseConflictSearcher(df, enrollment, professors, busy, types,
                                              ignore_busy, ignore_teaching)
    /\ call = [op |-> "__init__"]
    /\ returned = [kind |-> "None"]

SearcherNext ==
    \/ SetOptions
    \/ GetOptions
    \/ SearchCourse
    \/ SummaryTable

SearcherSpec == SearcherInit /\ [][SearcherNext]_vars

----------------------------------------------------------------------------
(* The driver over varied enrolments *)

EnrolmentMaps ==
    { << >>,
      ("s1" :> <<"A", "B">>) @@ ("s2" :> <<"A">>),
      ("s1" :> <<"A", "B">>) @@ ("s2" :> <<"B", "A">>),
      ("s1" :> <<"A", "A">>) @@ ("s2" :> <<"B">>),
      ("s1" :> <<"A", "B", "A">>),
      ("s1" :> <<"A", "C">>) @@ ("s2" :> <<>>) }

EnrolmentInit ==
    /\ courses \in {("A" :> TimeSlots(a)) @@ ("B" :> TimeSlots(b)) :
                       a \in {<<Mon9>>, <<Mon9, Tue9>>}, b \in {<<Mon9>>, <<Mon9, Mon10>>}}
    /\ student_course_map \in EnrolmentMaps
    /\ course_professor_map = << >>
    /\ course_classes_per_week \in {("A" :> 1) @@ ("B" :> 1), ("A" :> 1) @@ ("B" :> MaxDemand)}
    /\ course_type = ("A" :> "Required")
    /\ non_preferred_slots = <<Tue9>>
    /\ add_prof_constraints = TRUE
    /\ add_timeslot_capacity \in BOOLEAN
    /\ add_student_conflicts \in BOOLEAN
    /\ add_no_same_day \in BOOLEAN
    /\ add_no_consec_days \in BOOLEAN
    /\ max_classes_per_slot = 1
    /\ pc = "start"
    /\ status = "none"
    /\ schedule_df = EmptyDataFrame
    /\ result = NoResult
    /\ solved = <<>>
    /\ searcher = NoSearcher
    /\ call = NoCall
    /\ returned = NothingReturned

EnrolmentSpec == EnrolmentInit /\ [][Next]_vars

----------------------------------------------------------------------------
(* The driver over every toggle setting *)

ToggleInit ==
    /\ courses \in {("A" :> TimeSlots(a)) @@ ("B" :> TimeSlots(b)) :
                       a \in {<<Mon9>>, <<Mon9, Mon10>>, <<Mon9, Tue9>>, <<Mon9, Mon10, Tue9>>},
                       b \in {<<Mon9>>, <<Tue9>>, <<Mon9, Tue9>>}}
    /\ student_course_map = ("s1" :> <<"A", "B">>)
    /\ course_professor_map \in {<< >>, ("A" :> Str("P")) @@ ("B" :> List(<<"Q", "P">>))}
    /\ course_classes_per_week \in {("A" :> 1) @@ ("B" :> 1), ("A" :> MaxDemand) @@ ("B" :> 1)}
    /\ course_type = ("A" :> "Required") @@ ("B" :> "Required")
    /\ non_preferred_slots = <<Tue9>>
    /\ add_prof_constraints \in BOOLEAN
    /\ add_timeslot_capacity \in BOOLEAN
    /\ add_student_conflicts \in BOOLEAN
    /\ add_no_same_day \in BOOLEAN
    /\ add_no_consec_days \in BOOLEAN
    /\ max_classes_per_slot \in {1, MaxCap}
    /\ pc = "start"
    /\ status = "none"
    /\ schedule_df = EmptyDataFrame
    /\ result = NoResult
    /\ solved = <<>>
    /\ searcher = NoSearcher
    /\ call = NoCall
    /\ returned = NothingReturned

ToggleSpec == ToggleInit /\ [][Next]_vars

----------------------------------------------------------------------------
(* The driver over inputs that tell the terms of the objective apart *)

ObjectiveInit ==
    /\ courses \in
       { ("A" :> TimeSlots(<<Mon9, Tue9, Mon10>>)) @@ ("B" :> TimeSlots(<<Mon9>>)),
         ("A" :> TimeSlots(<<Mon9, Mon10, Tue9>>)) @@ ("B" :> TimeSlots(<<Mon9, Tue9>>)),
         ("A" :> TimeSlots(<<Mon9, Mon10, Tue9, Tue10, Wed9>>)) @@ ("B" :> TimeSlots(<<Wed9>>)) }
    /\ student_course_map \in {("s1" :> <<"A", "B">>), ("s1" :> <<"A">>) @@ ("s2" :> <<"B">>)}
    /\ course_professor_map = << >>
    /\ course_classes_per_week \in {("A" :> 2) @@ ("B" :> 1), ("A" :> 3) @@ ("B" :> 1)}
    /\ course_type \in {("A" :> "Required") @@ ("B" :> "Required"), ("A" :> "Required")}
    /\ non_preferred_slots \in {<<Tue9>>, <<Mon9, Mon10>>}
    /\ add_prof_constraints = TRUE
    /\ add_timeslot_capacity = TRUE
    /\ add_student_conflicts \in BOOLEAN
    /\ add_no_same_day \in BOOLEAN
    /\ add_no_consec_days \in BOOLEAN
    /\ max_classes_per_slot = MaxCap
    /\ pc = "start"
    /\ status = "none"
    /\ schedule_df = EmptyDataFrame
    /\ result = NoResult
    /\ solved = <<>>
    /\ searcher = NoSearcher
    /\ call = NoCall
    /\ returned = NothingReturned

ObjectiveSpec == ObjectiveInit /\ [][Next]_vars

----------------------------------------------------------------------------
(* The driver over candidate lists with repeated labels and any int demand *)

DemandInit ==
    /\ courses \in {("A" :> TimeSlots(a)) @@ ("B" :> TimeSlots(<<Mon9>>)) :
                       a \in {<<Mon9>>, <<Mon9, Mon9>>, <<Mon9, Mon10>>, <<Mon9, Tue9, Mon9>>}}
                   \cup {("A" :> TimeSlots(a)) : a \in {<<Mon9, Mon9>>, <<Mon9, Tue9>>}}
    /\ student_course_map = ("s1" :> <<"A", "B">>)
    /\ course_professor_map \in {<< >>, ("A" :> Str("P")) @@ ("B" :> Str("P"))}
    /\ course_classes_per_week \in
           {("A" :> n) : n \in (-1)..MaxDemand} \cup {("A" :> n) @@ ("B" :> 1) : n \in 0..MaxDemand}
    /\ course_type = ("A" :> "Required")
    /\ non_preferred_slots = <<Tue9>>
    /\ add_prof_constraints \in BOOLEAN
    /\ add_timeslot_capacity \in BOOLEAN
    /\ add_student_conflicts = TRUE
    /\ add_no_same_day \in BOOLEAN
    /\ add_no_consec_days \in BOOLEAN
    /\ max_classes_per_slot \in {1, MaxCap}
    /\ pc = "start"
    /\ status = "none"
    /\ schedule_df = EmptyDataFrame
    /\ result = NoResult
    /\ solved = <<>>
    /\ searcher = NoSearcher
    /\ call = NoCall
    /\ returned = NothingReturned

DemandSpec == DemandInit /\ [][Next]_vars

----------------------------------------------------------------------------
(* A scheduling run followed by the analysis of its schedule *)

\* the characters of a one-letter course id
Chars(c_id) == <<c_id>>

\* the schedule, the enrolment lists and a course-keyed map with the ids
\* spelled out as strings
NamedLists(m) == [st \in DOMAIN m |-> [i \in DOMAIN m[st] |-> Chars(m[st][i])]]
NamedMap(m) == [n \in {Chars(c) : c \in DOMAIN m} |-> m[n[1]]]

\* CourseConflictSearcher(schedule_df, student_course_map, course_professor_map,
\* professor_busy_slots, course_type_map) on the schedule that was returned
ConstructSearcher ==
    /\ pc = "done" /\ result.message.kind = "success"
    /\ call.op = "none"
    /\ \E busy \in BusySlotMaps :
        searcher' = CourseConflictSearcher([i \in DOMAIN result.schedule |-> <<Chars(result.schedule[i][1]), result.schedule[i][2]>>],
                                           NamedLists(student_course_map),
                                           NamedMap(course_professor_map),
                                           busy, NamedMap(course_type), FALSE, FALSE)
    /\ call' = [op |-> "__init__"]
    /\ returned' = [kind |-> "None"]
    /\ UNCHANGED driver

\* instructor maps with entries that are missing, empty or None
AnalysisInit ==
    /\ courses \in {("A" :> TimeSlots(<<Mon9>>)) @@ ("B" :> TimeSlots(b)) @@ ("C" :> TimeSlots(<<Mon9, Tue9>>)) :
                       b \in {<<Mon9>>, <<Mon9, Mon10>>}}
    /\ student_course_map = ("s1" :> <<"A", "B">>)
    /\ course_professor_map \in
       { ("A" :> None) @@ ("B" :> Str("P")),
         ("A" :> Str("P")) @@ ("B" :> Str("P")) @@ ("C" :> None),
         ("A" :> List(<< >>)) @@ ("B" :> Str("P")),
         ("B" :> Str("P")) @@ ("C" :> Str("P")),
         ("A" :> None) @@ ("B" :> List(<< >>)) }
    /\ course_classes_per_week = [c \in CourseIds |-> 1]
    /\ course_type = ("A" :> "Required")
    /\ non_preferred_slots = <<>>
    /\ add_prof_constraints \in BOOLEAN
    /\ add_timeslot_capacity = TRUE
    /\ add_student_conflicts = TRUE
    /\ add_no_same_day = TRUE
    /\ add_no_consec_days \in BOOLEAN
    /\ max_classes_per_slot = MaxCap
    /\ pc = "start"
    /\ status = "none"
    /\ schedule_df = EmptyDataFrame
    /\ result = NoResult
    /\ solved = <<>>
    /\ searcher = NoSearcher
    /\ call = NoCall
    /\ returned = NothingReturned

AnalysisNext ==
    \/ Next
    \/ ConstructSearcher
    \/ SearcherNext

AnalysisSpec == AnalysisInit /\ [][AnalysisNext]_vars

----------------------------------------------------------------------------
(* Section allocation *)

MaxStudents == 5    \* enrolled_students_df has at most MaxStudents rows
MaxSections == 3    \* num_sections is drawn from 1..MaxSections
MaxClusters == 3    \* cluster labels are drawn from 0..(MaxClusters - 1)

\* max_section_size: None or a positive int
NoSize == [given |-> FALSE, value |-> 0]
GivenSize(n) == [given |-> TRUE, value |-> n]

\* enrolled_students_df: one row (Roll_No, Cluster) per student, in index order
StudentFrames ==
    UNION {{[i \in 1..n |-> [Roll_No |-> <<"r", i>>, Cluster |-> f[i]]] :
                f \in [1..n -> 0..(MaxClusters - 1)]} : n \in 0..MaxStudents}

\* groupby("Cluster")["Roll_No"].apply(list): the clusters in ascending order,
\* each with its students in row order
GroupedStudents(enrolled_students) ==
    LET labels == SelectSeq([k \in 1..MaxClusters |-> k - 1],
                            LAMBDA c : \E i \in DOMAIN enrolled_students :
                                           enrolled_students[i].Cluster = c)
        rows(c) == SelectSeq(enrolled_students, LAMBDA r : r.Cluster = c)
    IN  [j \in 1..Len(labels) |->
            [cluster |-> labels[j],
             students |-> [i \in 1..Len(rows(labels[j])) |-> rows(labels[j])[i].Roll_No]]]

SectionRows(course_name, cluster, students, section_counter) ==
    [i \in 1..Len(students) |->
        [Roll_No |-> students[i], Course |-> course_name, Cluster |-> cluster,
         Assigned_Section |-> section_counter]]

NextSection(section_counter, num_sections) == (section_counter % num_sections) + 1

\* the pieces i..(num_splits - 1) of a cluster that is too large
RECURSIVE SplitCluster(_, _, _, _, _, _, _)
SplitCluster(course_name, num_sections, cluster, students, num_splits, i, section_counter) ==
    IF i >= num_splits THEN [rows |-> <<>>, section_counter |-> section_counter]
    ELSE LET cluster_size == Len(students)
             students_per_section == cluster_size \div num_splits
             start_idx == i * students_per_section
             end_idx == IF i < num_splits - 1 THEN (i + 1) * students_per_section
                        ELSE cluster_size
             assigned_students == SubSeq(students, start_idx + 1, end_idx)
             rest == SplitCluster(course_name, num_sections, cluster, students, num_splits,
                                  i + 1, NextSection(section_counter, num_sections))
         IN  [rows |-> SectionRows(course_name, cluster, assigned_students, section_counter)
                           \o rest.rows,
              section_counter |-> rest.section_counter]

RECURSIVE AllocateClusters(_, _, _, _, _)
AllocateClusters(course_name, num_sections, grouped, max_section_size, section_counter) ==
    IF grouped = <<>> THEN <<>>
    ELSE LET cluster == Head(grouped).cluster
             students == Head(grouped).students
             cluster_size == Len(students)
         IN  IF cluster_size <= max_section_size
             THEN SectionRows(course_name, cluster, students, section_counter)
                      \o AllocateClusters(course_name, num_sections, Tail(grouped),
                                          max_section_size,
                                          NextSection(section_counter, num_sections))
             ELSE LET pieces == (cluster_size \div max_section_size)
                                    + (IF cluster_size % max_section_size # 0 THEN 1 ELSE 0)
                      num_splits == IF num_sections < pieces THEN num_sections ELSE pieces
                      pieces_rows == SplitCluster(course_name, num_sections, cluster, students,
                                            num_splits, 0, section_counter)
                  IN  pieces_rows.rows
                          \o AllocateClusters(course_name, num_sections, Tail(grouped),
                                              max_section_size, pieces_rows.section_counter)

\* max_section_size as the function uses it
SectionSize(num_sections, enrolled_students, max_section_size) ==
    IF max_section_size.given THEN max_section_size.value
    ELSE IF 10 >= Len(enrolled_students) \div num_sections THEN 10
    ELSE Len(enrolled_students) \div num_sections

allocate_sections_for_course(course_name, num_sections, enrolled_students_df, max_section_size) ==
    IF enrolled_students_df = <<>> THEN <<>>
    ELSE AllocateClusters(course_name, num_sections, GroupedStudents(enrolled_students_df),
                          SectionSize(num_sections, enrolled_students_df, max_section_size), 1)

AllocateSections ==
    /\ pc = "sections" /\ call.op = "none"
    /\ \E num_sections \in 1..MaxSections, enrolled_students_df \in StudentFrames,
          max_section_size \in {NoSize} \cup {GivenSize(n) : n \in 1..MaxStudents} :
        /\ call' = [op |-> "allocate_sections_for_course",
                    num_sections |-> num_sections,
                    enrolled_students_df |-> enrolled_students_df,
                    max_section_size |-> max_section_size]
        /\ returned' = [kind |-> "sections",
                        value |-> allocate_sections_for_course("DATA201", num_sections,
                                                               enrolled_students_df,
                                                               max_section_size)]
    /\ UNCHANGED <<driver, searcher>>

SectionInit ==
    /\ courses = << >>
    /\ student_course_map = << >>
    /\ course_professor_map = << >>
    /\ course_classes_per_week = << >>
    /\ course_type = << >>
    /\ non_preferred_slots = <<>>
    /\ add_prof_constraints = TRUE
    /\ add_timeslot_capacity = TRUE
    /\ add_student_conflicts = TRUE
    /\ add_no_same_day = TRUE
    /\ add_no_consec_days = TRUE
    /\ max_classes_per_slot = 1
    /\ pc = "sections"
    /\ status = "none"
    /\ schedule_df = EmptyDataFrame
    /\ result = NoResult
    /\ solved = <<>>
    /\ searcher = NoSearcher
    /\ call = NoCall
    /\ returned = NothingReturned

SectionSpec == SectionInit /\ [][AllocateSections]_vars

----------------------------------------------------------------------------
(* Properties of the returned (schedule, message) *)

Returned == pc = "done"
Success == Returned /\ result.message.kind = "success"
ScheduleRows == Range(result.schedule)
ScheduledSlots(c) == {row[2] : row \in {r \in ScheduleRows : r[1] = c}}
ClassesPerWeek(c) ==
    IF c \in DOMAIN course_classes_per_week THEN course_classes_per_week[c] ELSE 2
CandidateSlots(c) == Range(courses[c]["time_slots"])

\* the instructors of a course: the string itself, or the members of the list
InstructorsOf(c) ==
    IF c \notin DOMAIN course_professor_map THEN {}
    ELSE IF course_professor_map[c].t = "None" THEN {}
    ELSE Range(course_professor_map[c].v)

\* the first whitespace-delimited token of a label: the longest run of
\* non-blank characters that starts at the first non-blank character
DayToken(label) ==
    LET nonblank == {i \in DOMAIN label : label[i] \notin Whitespace}
        first == CHOOSE i \in nonblank : \A j \in nonblank : i <= j
        last == CHOOSE i \in nonblank :
                    /\ \A j \in first..i : j \in nonblank
                    /\ (i + 1) \notin nonblank
    IN  SubSeq(label, first, last)

InstructorExclusive ==
    \A p \in Professors : \A s \in Slots :
        Cardinality({c \in DOMAIN courses : p \in InstructorsOf(c) /\ <<c, s>> \in ScheduleRows}) <= 1

WithinCapacity ==
    \A s \in Slots :
        Cardinality({c \in DOMAIN courses : <<c, s>> \in ScheduleRows}) <= max_classes_per_slot

NoCourseTwiceADay ==
    \A c \in DOMAIN courses : \A s1, s2 \in ScheduledSlots(c) :
        s1 # s2 => DayToken(s1) # DayToken(s2)

\* C1 (as claimed): in every schedule returned with a success message each
\* course of `courses` has exactly classes_per_week(c) rows, with distinct
\* slots that all belong to the course's candidate slots.
C1_DemandMetOnSuccess ==
    Success =>
        \A c \in DOMAIN courses :
            /\ Cardinality({i \in DOMAIN result.schedule : result.schedule[i][1] = c})
                   = ClassesPerWeek(c)
            /\ Cardinality(ScheduledSlots(c)) = ClassesPerWeek(c)
            /\ ScheduledSlots(c) \subseteq CandidateSlots(c)

\* C2: with add_prof_constraints, in every schedule returned with a success
\* message no instructor has two of their courses in the same slot; a course
\* counts for each of its instructors, given as a string or as a list.
C2_InstructorExclusive ==
    (Success /\ add_prof_constraints) => InstructorExclusive

\* a returned schedule in which two courses share an instructor and a candidate
\* slot, one of them listed with several instructors and one with a string
C2_Witness ==
    /\ Success /\ add_prof_constraints
    /\ \E c1, c2 \in DOMAIN courses :
        /\ c1 # c2
        /\ ScheduledSlots(c1) # {} /\ ScheduledSlots(c2) # {}
        /\ InstructorsOf(c1) \cap InstructorsOf(c2) # {}
        /\ CandidateSlots(c1) \cap CandidateSlots(c2) # {}
        /\ course_professor_map[c1].t = "str"
        /\ course_professor_map[c2].t = "list" /\ Len(course_professor_map[c2].v) > 1

\* C3: with add_timeslot_capacity, in every schedule returned with a success
\* message no slot is used by more than max_classes_per_slot courses.
C3_WithinCapacity ==
    (Success /\ add_timeslot_capacity) => WithinCapacity

\* a returned schedule in which more courses than max_classes_per_slot have a
\* common candidate slot
C3_Witness ==
    /\ Success /\ add_timeslot_capacity
    /\ \E s \in Slots :
        /\ Cardinality({c \in DOMAIN courses : s \in CandidateSlots(c)}) > max_classes_per_slot
        /\ Cardinality({c \in DOMAIN courses : <<c, s>> \in ScheduleRows}) = max_classes_per_slot

\* C4: with add_no_same_day, in every schedule returned with a success message
\* (phase 5 or phase 6) no course has two chosen slots on the same day, the day
\* being the first whitespace-delimited token of the label.
C4_NoCourseTwiceADay ==
    (Success /\ add_no_same_day) => NoCourseTwiceADay

\* a returned schedule of a course that meets twice and has two candidate
\* slots on one day
C4_Witness ==
    /\ Success /\ add_no_same_day
    /\ \E c \in DOMAIN courses :
        /\ Cardinality(ScheduledSlots(c)) >= 2
        /\ \E s1, s2 \in CandidateSlots(c) : s1 # s2 /\ DayToken(s1) = DayToken(s2)

LastPhase == IF add_no_consec_days THEN 6 ELSE 5

\* the model of level n has an assignment that satisfies its hard constraints
LevelFeasible(n) ==
    FeasibleSet(n >= 2 /\ add_prof_constraints,
                n >= 3 /\ add_timeslot_capacity,
                n >= 5 /\ add_no_same_day) # {}

\* C5 (as claimed): whatever the toggles, a schedule returned with a success
\* message satisfies instructor exclusivity, slot capacity and no course
\* twice on a day.
C5_HardFamiliesUnconditional ==
    Success => (InstructorExclusive /\ WithinCapacity /\ NoCourseTwiceADay)

\* C5 (amended): phases 1 to 5 are always solved and phase 6 only when
\* add_no_consec_days is set, and a schedule returned with a success message
\* satisfies each hard family whose toggle is enabled.
C5_HardFamiliesWhenEnabled ==
    Success =>
        /\ 1..5 \subseteq Range(solved)
        /\ (6 \in Range(solved)) <=> add_no_consec_days
        /\ add_prof_constraints => InstructorExclusive
        /\ add_timeslot_capacity => WithinCapacity
        /\ add_no_same_day => NoCourseTwiceADay

\* a returned schedule that keeps the enabled same-day family and, with
\* add_prof_constraints disabled, double-books an instructor
C5_Witness ==
    /\ Success /\ result.schedule # EmptyDataFrame
    /\ add_no_same_day /\ ~add_prof_constraints
    /\ ~InstructorExclusive
    /\ \E c \in DOMAIN courses : Cardinality(ScheduledSlots(c)) >= 2

\* C6 (as claimed): the phases are solved in ascending order from 1; when L is
\* the first level whose model is infeasible the driver returns the empty
\* schedule with the phase-L diagnostic and solves no phase after L.
C6_FirstInfeasiblePhaseReported ==
    (Returned /\ solved # <<>>) =>
        /\ solved = [i \in 1..Len(solved) |-> i]
        /\ LET infeasible == {n \in 1..LastPhase : ~LevelFeasible(n)}
           IN  IF infeasible # {}
               THEN LET L == CHOOSE n \in infeasible : \A m \in infeasible : n <= m
                    IN  /\ result.schedule = EmptyDataFrame
                        /\ result.message.kind = "diagnostic"
                        /\ result.message.phase = L
                        /\ Len(solved) = L
               ELSE Len(solved) = LastPhase

\* C7 (as claimed): every result is a non-empty schedule with the success
\* message of the last executed phase, or an empty schedule with a diagnostic
\* or error report; never an empty schedule with a success message.
C7_ResultShape ==
    Returned =>
        \/ /\ result.schedule # EmptyDataFrame
           /\ result.message = SuccessMessage(LastPhase)
        \/ /\ result.schedule = EmptyDataFrame
           /\ result.message.kind \in {"diagnostic", "precheck", "critical"}

\* C8 (as claimed): a phase that ends on the time limit without an assignment
\* (status UNKNOWN) is handled as infeasible: the driver returns the empty
\* schedule with that phase's diagnostic and solves no later phase.
C8_TimeLimitReportedAsInfeasible ==
    status = "UNKNOWN" =>
        /\ Returned
        /\ result.schedule = EmptyDataFrame
        /\ result.message.kind = "diagnostic"
        /\ result.message.phase = solved[Len(solved)]

Offenders ==
    {c \in DOMAIN courses : ClassesPerWeek(c) > Len(courses[c]["time_slots"])}

\* C9 (as claimed): when some courses need more sessions than they have
\* candidate slots, the driver returns before any solver call with an empty
\* schedule and a pre-check report that names every such course.
C9_PreCheckNamesEveryCourse ==
    ( /\ Returned
      /\ \A c \in DOMAIN courses : "time_slots" \in DOMAIN courses[c]
      /\ \E c \in DOMAIN courses : courses[c]["time_slots"] # <<>>
      /\ Offenders # {} ) =>
        /\ solved = <<>>
        /\ result.schedule = EmptyDataFrame
        /\ result.message.kind = "precheck"
        /\ {result.message.course} = Offenders

\* the slots listed under any key of a course entry, the keys read as instructors
InstructorKeyedSlots ==
    UNION {UNION {Range(courses[c][k]) : k \in DOMAIN courses[c]} : c \in DOMAIN courses}

\* the slots listed under the "time_slots" key of the course entries
TimeSlotsKeySlots ==
    UNION {Range(courses[c]["time_slots"]) :
              c \in {d \in DOMAIN courses : "time_slots" \in DOMAIN courses[d]}}

----------------------------------------------------------------------------
(* Soft families *)

\* the solver can answer INFEASIBLE for the model of level n
InfeasibleAt(n) ==
    \E r \in solve_phase(n >= 2 /\ add_prof_constraints,
                         n >= 3 /\ add_timeslot_capacity,
                         n >= 4 /\ add_student_conflicts,
                         n >= 5 /\ add_no_same_day,
                         n >= 6 /\ add_no_consec_days) : r.status = "INFEASIBLE"

\* the assignment read back from the returned schedule
ReturnedAssignment == [c \in DOMAIN courses |-> ScheduledSlots(c)]

\* a student with two different enrolled courses in one slot of the returned schedule
ReturnedClashes ==
    {ts \in (DOMAIN student_course_map) \X Slots :
        \E c1, c2 \in Range(student_course_map[ts[1]]) :
            c1 # c2 /\ <<c1, ts[2]>> \in ScheduleRows /\ <<c2, ts[2]>> \in ScheduleRows}

----------------------------------------------------------------------------
(* Properties of the searcher's answers *)

\* sub occurs in s as a run of consecutive characters
IsSubstring(sub, s) ==
    \E i \in 1..(Len(s) + 1) : \E j \in (i - 1)..Len(s) : SubSeq(s, i, j) = sub

\* the whitespace-separated tokens of a string
Tokens(q) ==
    {SubSeq(q, i, j) : <<i, j>> \in
        {ij \in (DOMAIN q) \X (DOMAIN q) :
            /\ ij[1] <= ij[2]
            /\ \A k \in ij[1]..ij[2] : q[k] \notin Whitespace
            /\ (ij[1] = 1 \/ q[ij[1] - 1] \in Whitespace)
            /\ (ij[2] = Len(q) \/ q[ij[2] + 1] \in Whitespace)}}

\* the courses that have a row in the searcher's schedule
ScheduledCourses == {row[1] : row \in Range(searcher.schedule_df)}

\* C12: search_course(q) returns found=true with exactly the scheduled courses
\* whose id contains q as a case-insensitive substring, total_matches being
\* their number (all courses for the empty query); when there is none it
\* returns found=false with at most 5 suggestions, each a scheduled course
\* that contains a whitespace-separated token of q.
C12_SearchMatchesSubstring ==
    call.op = "search_course" =>
        LET q == call.course_name
            r == returned.value
            expected == {c \in ScheduledCourses : IsSubstring(lower(q), lower(c))}
        IN  IF expected # {}
            THEN /\ r.found
                 /\ DOMAIN r.courses = expected
                 /\ r.total_matches = Cardinality(expected)
                 /\ q = <<>> => DOMAIN r.courses = ScheduledCourses
            ELSE /\ ~r.found
                 /\ Len(r.suggestions) <= 5
                 /\ \A i \in DOMAIN r.suggestions :
                        /\ r.suggestions[i] \in ScheduledCourses
                        /\ \E token \in Tokens(q) :
                               IsSubstring(lower(token), lower(r.suggestions[i]))

\* an upper-case query that matches one of two scheduled courses
C12_Witness ==
    /\ call.op = "search_course"
    /\ call.course_name = <<"A", "L", "G", "O">>
    /\ returned.value.found
    /\ DOMAIN returned.value.courses = {Algo}
    /\ Cardinality(ScheduledCourses) = 2

\* six courses contain a token of the query and five are suggested
SuggestionsTruncated ==
    /\ call.op = "search_course"
    /\ ~returned.value.found
    /\ Len(returned.value.suggestions) = 5
    /\ Cardinality({c \in ScheduledCourses :
                       \E token \in Tokens(call.course_name) :
                           IsSubstring(lower(token), lower(c))}) = 6


\* the students listed for course c
EnrolledIn(c) ==
    {st \in DOMAIN searcher.student_course_map : c \in Range(searcher.student_course_map[st])}

\* the other courses of student st, different from c, that have a row for slot s
OtherCoursesInSlot(st, c, s) ==
    {o \in Range(searcher.student_course_map[st]) :
        o # c /\ <<o, s>> \in Range(searcher.schedule_df)}

\* C13: for a matched course c and each slot s in which c is scheduled,
\* current_slot_analysis[s].conflicted_students is exactly the set of students
\* enrolled in c who are also enrolled in another course scheduled in s, and
\* each conflict detail lists those other courses with their type ('Unknown'
\* when the type map has no entry).
C13_CurrentSlotConflicts ==
    (call.op = "search_course" /\ returned.value.found) =>
        \A c \in DOMAIN returned.value.courses :
            LET info == returned.value.courses[c]
                slots == {row[2] : row \in {r \in Range(searcher.schedule_df) : r[1] = c}}
            IN  /\ DOMAIN info.current_slot_analysis = slots
                /\ \A s \in slots :
                    LET a == info.current_slot_analysis[s]
                        expected == {st \in EnrolledIn(c) : OtherCoursesInSlot(st, c, s) # {}}
                    IN  /\ Range(a.conflicted_students) = expected
                        /\ Len(a.conflicted_students) = Cardinality(expected)
                        /\ {d.student_id : d \in Range(a.conflict_details)} = expected
                        /\ Len(a.conflict_details) = Cardinality(expected)
                        /\ \A d \in Range(a.conflict_details) :
                            /\ Range(d.conflicting_courses) = OtherCoursesInSlot(d.student_id, c, s)
                            /\ {t.course_name : t \in Range(d.conflicting_courses_with_types)}
                                   = OtherCoursesInSlot(d.student_id, c, s)
                            /\ \A t \in Range(d.conflicting_courses_with_types) :
                                   t.course_type =
                                       IF t.course_name \in DOMAIN searcher.course_type_map
                                       THEN searcher.course_type_map[t.course_name]
                                       ELSE "Unknown"

\* the search for "algo" over the schedule {Algo: Mon9, DB: Mon9}: of the two
\* students of Algo only s1 is conflicted, with DB of type 'Unknown'
C13_Witness ==
    /\ call.op = "search_course" /\ returned.value.found
    /\ Algo \in DOMAIN returned.value.courses
    /\ searcher.schedule_df = <<<<Algo, Mon9>>, <<DB, Mon9>>>>
    /\ EnrolledIn(Algo) = {"s1", "s2"}
    /\ LET a == returned.value.courses[Algo].current_slot_analysis[Mon9]
       IN  /\ a.conflicted_students = <<"s1">>
           /\ a.conflict_details[1].conflicting_courses_with_types
                  = <<[course_name |-> DB, course_type |-> "Unknown"]>>


\* the students of c that have another listed course in a slot of c
ConflictedIn(c) ==
    {st \in EnrolledIn(c) :
        \E row \in Range(searcher.schedule_df) :
            row[1] = c /\ OtherCoursesInSlot(st, c, row[2]) # {}}

\* C14: the per-course conflict_rate equals 100 * (distinct conflicted students)
\* / (enrolled students), lies between 0 and 100, and is 0, without an error,
\* for a course without enrolled students; get_course_summary_table shows the
\* same rate, rounded to one decimal.
C14_ConflictRate ==
    /\ (call.op = "search_course" /\ returned.value.found) =>
           \A c \in DOMAIN returned.value.courses :
               LET rate == returned.value.courses[c].conflict_rate
                   n == Cardinality(ConflictedIn(c))
                   m == Cardinality(EnrolledIn(c))
               IN  /\ rate.den > 0
                   /\ m = 0 => rate.num = 0
                   /\ m > 0 => rate.num * m = 100 * n * rate.den
                   /\ 0 <= rate.num /\ rate.num <= 100 * rate.den
    /\ (call.op = "get_course_summary_table" /\ ScheduledCourses # {}) =>
           /\ returned.value.kind = "DataFrame"
           /\ \A c \in ScheduledCourses :
               LET shown == returned.value.rows[c].Conflict_Rate
                   tenths == 10 * shown.int + shown.frac
                   n == Cardinality(ConflictedIn(c))
                   m == Cardinality(EnrolledIn(c))
               IN  /\ m = 0 => tenths = 0
                   /\ m > 0 => (2 * (tenths * m - 1000 * n) <= m /\ 2 * (1000 * n - tenths * m) <= m)
                   /\ 0 <= tenths /\ tenths <= 1000

\* a matched course that is scheduled and has no enrolled student, next to
\* another course that has one
C14_Witness ==
    /\ call.op = "search_course" /\ returned.value.found
    /\ Algo \in DOMAIN returned.value.courses
    /\ returned.value.courses[Algo].scheduled_slots # <<>>
    /\ EnrolledIn(Algo) = {} /\ EnrolledIn(DB) # {}
    /\ returned.value.courses[Algo].conflict_rate.num = 0

\* the summary table of a schedule in which one of three students of a course
\* is conflicted: 33.3%
SummaryShowsOneThird ==
    /\ call.op = "get_course_summary_table"
    /\ returned.value.kind = "DataFrame"
    /\ \E c \in ScheduledCourses :
           /\ Cardinality(EnrolledIn(c)) = 3
           /\ returned.value.rows[c].Conflict_Rate = [int |-> 33, frac |-> 3]


\* the instructors assigned to course c in the searcher's instructor map
AssignedInstructors(c) ==
    IF c \in DOMAIN searcher.course_professor_map
    THEN Range(searcher.course_professor_map[c].v)
    ELSE {}

BusySet(p) ==
    IF p \in DOMAIN searcher.professor_busy_slots
    THEN Range(searcher.professor_busy_slots[p])
    ELSE {}

\* instructor p is busy in s, or teaches another course than c that has a row for s
IsBusy(p, s) == s \in BusySet(p)
TeachesOtherCourse(p, c, s) ==
    \E o \in DOMAIN searcher.course_professor_map :
        o # c /\ p \in AssignedInstructors(o) /\ <<o, s>> \in Range(searcher.schedule_df)

ExpectedUnavailable(c, s) ==
    \E p \in AssignedInstructors(c) :
        \/ ~searcher.ignore_professor_busy_slots /\ IsBusy(p, s)
        \/ ~searcher.ignore_professor_teaching_conflicts /\ TeachesOtherCourse(p, c, s)

\* the availability reported for (c, s) by the latest search
ReportedAvailable(c, s) ==
    LET info == returned.value.courses[c]
    IN  IF s \in DOMAIN info.current_slot_analysis
        THEN info.current_slot_analysis[s].professor_available
        ELSE info.alternative_slot_analysis[s].professor_available

\* C15: the availability check for (c, s) answers unavailable exactly when c
\* has an assigned instructor p that is busy in s while busy slots are not
\* ignored, or that is an instructor of another course scheduled in s while
\* teaching conflicts are not ignored; it answers available without an
\* instructor map, for a course without instructor, and whenever both ignore
\* flags are true.
C15_ProfessorAvailability ==
    (call.op = "search_course" /\ returned.value.found) =>
        \A c \in DOMAIN returned.value.courses :
            LET info == returned.value.courses[c]
                all_slots == {row[2] : row \in Range(searcher.schedule_df)}
            IN  /\ DOMAIN info.current_slot_analysis \cup DOMAIN info.alternative_slot_analysis
                       = all_slots
                /\ \A s \in all_slots :
                    /\ ReportedAvailable(c, s) <=> ~ExpectedUnavailable(c, s)
                    /\ searcher.course_professor_map = << >> => ReportedAvailable(c, s)
                    /\ AssignedInstructors(c) = {} => ReportedAvailable(c, s)
                    /\ ( /\ searcher.ignore_professor_busy_slots
                         /\ searcher.ignore_professor_teaching_conflicts ) => ReportedAvailable(c, s)

\* with both ignore flags true a slot is reported available although the
\* course's instructor is busy in it and teaches another course there
C15_Witness ==
    /\ call.op = "search_course" /\ returned.value.found
    /\ searcher.ignore_professor_busy_slots /\ searcher.ignore_professor_teaching_conflicts
    /\ \E c \in DOMAIN returned.value.courses :
        \E s \in DOMAIN returned.value.courses[c].alternative_slot_analysis :
            /\ ReportedAvailable(c, s)
            /\ \E p \in AssignedInstructors(c) : IsBusy(p, s) /\ TeachesOtherCourse(p, c, s)

\* a slot reported unavailable for the busy set alone, and one for a teaching
\* conflict alone
UnavailableForEitherReason ==
    /\ call.op = "search_course" /\ returned.value.found
    /\ \E c \in DOMAIN returned.value.courses :
        LET all_slots == {row[2] : row \in Range(searcher.schedule_df)}
        IN  /\ \E s \in all_slots :
                /\ ~ReportedAvailable(c, s)
                /\ \A p \in AssignedInstructors(c) : ~TeachesOtherCourse(p, c, s)
            /\ \E s \in all_slots :
                /\ ~ReportedAvailable(c, s)
                /\ \A p \in AssignedInstructors(c) : ~IsBusy(p, s)


\* the stored schedule and the two lookups built from it
StoredData ==
    <<searcher.schedule_df, searcher.schedule_lookup, searcher.student_schedule_lookup,
      searcher.student_course_map, searcher.course_professor_map,
      searcher.professor_busy_slots, searcher.course_type_map>>

\* C16: get_professor_constraint_options returns the stored flags; a call of
\* set_professor_constraint_options gives each flag the value passed for it and
\* leaves it alone when None is passed, so that each flag holds the last
\* non-None value passed for it (or its constructor value); no other call
\* changes a flag, and no call changes the stored schedule or the lookups.
C16_OptionsFrame ==
    /\ [](call.op = "get_professor_constraint_options" =>
            returned.value =
                [ignore_professor_busy_slots |-> searcher.ignore_professor_busy_slots,
                 ignore_professor_teaching_conflicts |->
                     searcher.ignore_professor_teaching_conflicts])
    /\ [][ /\ StoredData' = StoredData
           /\ IF call'.op = "set_professor_constraint_options"
              THEN /\ searcher'.ignore_professor_busy_slots =
                          IF call'.ignore_busy_slots.given
                          THEN call'.ignore_busy_slots.value
                          ELSE searcher.ignore_professor_busy_slots
                   /\ searcher'.ignore_professor_teaching_conflicts =
                          IF call'.ignore_teaching_conflicts.given
                          THEN call'.ignore_teaching_conflicts.value
                          ELSE searcher.ignore_professor_teaching_conflicts
              ELSE /\ searcher'.ignore_professor_busy_slots =
                          searcher.ignore_professor_busy_slots
                   /\ searcher'.ignore_professor_teaching_conflicts =
                          searcher.ignore_professor_teaching_conflicts ]_vars

\* after set_professor_constraint_options(ignore_teaching_conflicts=False), with
\* ignore_busy_slots left at None, the busy-slot flag is still True
C16_Witness ==
    /\ call.op = "set_professor_constraint_options"
    /\ call.ignore_busy_slots = NotGiven
    /\ call.ignore_teaching_conflicts = Given(FALSE)
    /\ searcher.ignore_professor_busy_slots
    /\ ~searcher.ignore_professor_teaching_conflicts
    /\ searcher.schedule_df # <<>>


\* courses a and b share instructor p, b has a row for slot s and a has none,
\* and the latest call is a search that matched a
SharedInstructorCase(a, b, p, s) ==
    /\ call.op = "search_course" /\ returned.value.found
    /\ a \in DOMAIN returned.value.courses
    /\ a # b
    /\ p \in AssignedInstructors(a) \cap AssignedInstructors(b)
    /\ <<b, s>> \in Range(searcher.schedule_df)
    /\ <<a, s>> \notin Range(searcher.schedule_df)

AlternativeSlot(a, s) == returned.value.courses[a].alternative_slot_analysis[s]

\* while teaching conflicts are checked the slot is listed as unavailable
ReportedUnavailable(a, s) ==
    /\ s \in DOMAIN returned.value.courses[a].alternative_slot_analysis
    /\ ~AlternativeSlot(a, s).professor_available
    /\ "excluded_reason" \in DOMAIN AlternativeSlot(a, s)
    /\ AlternativeSlot(a, s).excluded_reason = "Professor unavailable"

\* as claimed: with teaching conflicts ignored the slot is available provided
\* it is not in the busy set of the shared instructor
AvailableUnlessSharedBusy ==
    \A a, b \in ScheduledCourses : \A p \in Professors : \A s \in Slots :
        SharedInstructorCase(a, b, p, s) =>
            /\ ~searcher.ignore_professor_teaching_conflicts => ReportedUnavailable(a, s)
            /\ (searcher.ignore_professor_teaching_conflicts /\ ~IsBusy(p, s)) =>
                   AlternativeSlot(a, s).professor_available

\* C17 (as claimed): if A and B share instructor P, B is scheduled in s and A
\* is not, a query for A lists s with professor_available=false and
\* excluded_reason 'Professor unavailable'; after
\* set_professor_constraint_options(ignore_teaching_conflicts=True) the next
\* query for A lists s as available, provided s is not in P's busy set.
C17_ToggleMakesSlotAvailable ==
    /\ []AvailableUnlessSharedBusy
    /\ [][ ( /\ call.op = "set_professor_constraint_options"
             /\ call.ignore_teaching_conflicts = Given(TRUE)
             /\ call'.op = "search_course" ) => AvailableUnlessSharedBusy' ]_vars

\* with teaching conflicts ignored the slot is available provided no instructor
\* of the course is busy in it, or busy slots are ignored as well
AvailableUnlessAnyBusy ==
    \A a, b \in ScheduledCourses : \A p \in Professors : \A s \in Slots :
        SharedInstructorCase(a, b, p, s) =>
            /\ ~searcher.ignore_professor_teaching_conflicts => ReportedUnavailable(a, s)
            /\ ( /\ searcher.ignore_professor_teaching_conflicts
                 /\ \/ searcher.ignore_professor_busy_slots
                    \/ \A q \in AssignedInstructors(a) : ~IsBusy(q, s) ) =>
                   /\ AlternativeSlot(a, s).professor_available
                   /\ "excluded_reason" \notin DOMAIN AlternativeSlot(a, s)

\* C17 (amended): in that case a query for A made while teaching conflicts are
\* checked lists s with professor_available=false and excluded_reason
\* 'Professor unavailable'; a query made after
\* set_professor_constraint_options(ignore_teaching_conflicts=True), whatever
\* was queried before, lists s as available provided s is in the busy set of
\* none of A's instructors or busy slots are ignored.
C17_ToggleMakesSlotAvailableUnlessBusy ==
    /\ []AvailableUnlessAnyBusy
    /\ [][ ( /\ call.op = "set_professor_constraint_options"
             /\ call.ignore_teaching_conflicts = Given(TRUE)
             /\ call'.op = "search_course" ) =>
               /\ searcher'.ignore_professor_teaching_conflicts
               /\ AvailableUnlessAnyBusy' ]_vars

\* a query for Algo, which shares instructor P with DB, lists DB's slot as
\* available while teaching conflicts are ignored and busy slots are not
C17_Witness ==
    /\ SharedInstructorCase(Algo, DB, "P", Mon10)
    /\ searcher.ignore_professor_teaching_conflicts
    /\ ~searcher.ignore_professor_busy_slots
    /\ searcher.professor_busy_slots # << >>
    /\ AlternativeSlot(Algo, Mon10).professor_available
    /\ "excluded_reason" \notin DOMAIN AlternativeSlot(Algo, Mon10)


----------------------------------------------------------------------------
(* The searcher applied to the schedule returned by schedule_courses *)

\* the searcher constructed from the returned schedule and the enrolment map
ResultSearcher ==
    CourseConflictSearcher(result.schedule, student_course_map, << >>, << >>, course_type,
                           FALSE, FALSE)

\* the (student, slot) pairs reported as conflicted for some course
ReportedConflicts ==
    LET self == ResultSearcher
    IN  UNION {UNION {{<<st, s>> : st \in Range(_analyze_slot_conflicts(self, c, s).conflicted_students)} :
                        s \in Range(self.schedule_lookup[c])} :
                  c \in DOMAIN self.schedule_lookup}

\* the (student, slot) pairs whose variable conflict_{student}_{slot} is 1 in
\* the returned solution
ClashIndicators == ConflictVars(ReturnedAssignment)

\* C18 (as claimed): for a schedule returned with add_student_conflicts enabled
\* the (student, slot) pairs the searcher reports as conflicted are exactly the
\* pairs whose clash indicator is 1 in the returned solution, also when a
\* student lists a course more than once.
C18_AnalyzerReportsResidualClashes ==
    (Success /\ add_student_conflicts /\ status \in {"OPTIMAL", "FEASIBLE"}) =>
        ReportedConflicts = ClashIndicators

\* no student lists a course twice
NoRepeatedEnrolment ==
    \A st \in DOMAIN student_course_map :
        \A i, j \in DOMAIN student_course_map[st] :
            i # j => student_course_map[st][i] # student_course_map[st][j]

\* the same, for enrolment maps in which no student lists a course twice
AnalyzerReportsResidualClashesWithoutRepeats ==
    (Success /\ add_student_conflicts /\ status \in {"OPTIMAL", "FEASIBLE"} /\ NoRepeatedEnrolment) =>
        ReportedConflicts = ClashIndicators

\* a returned schedule with a clash that both sides report
ResidualClashReported ==
    /\ Success /\ add_student_conflicts /\ status = "OPTIMAL" /\ NoRepeatedEnrolment
    /\ ReportedConflicts # {}


----------------------------------------------------------------------------
(* Properties of the diagnostics *)

\* the courses assigned to instructor p
AssignedCourses(p) == {c \in DOMAIN course_professor_map : p \in InstructorsOf(c)}

\* the distinct candidate slots of the courses assigned to instructor p
InstructorSlots(p) ==
    UNION {Range(courses[c]["time_slots"]) :
              c \in {d \in AssignedCourses(p) \cap DOMAIN courses :
                        "time_slots" \in DOMAIN courses[d]}}

InstructorDemand(p) ==
    SumOver(AssignedCourses(p), [c \in AssignedCourses(p) |-> ClassesPerWeek(c)])

Phase2Returned ==
    Returned /\ result.message.kind = "diagnostic" /\ result.message.phase = 2

\* C19 (as claimed): in the phase-2 diagnostic every instructor is reported
\* with 'Total Classes Needed' the sum of the demands of the assigned courses
\* and 'Available Time Slots' the number of distinct candidate slots of all
\* those courses, CRITICAL iff needed > available, WARNING iff equal and OK
\* otherwise; an instructor of two demand-1 courses whose only candidate is the
\* same slot is CRITICAL with needed=2, available=1.
C19_Phase2ReportPerInstructor ==
    Phase2Returned =>
        /\ {r.professor : r \in Range(result.message.professors)}
               = {p \in Professors : AssignedCourses(p) # {}}
        /\ \A r \in Range(result.message.professors) :
            /\ r.total_classes_needed = InstructorDemand(r.professor)
            /\ r.available_slots = Cardinality(InstructorSlots(r.professor))
            /\ r.status = IF r.total_classes_needed > r.available_slots THEN "CRITICAL"
                          ELSE IF r.total_classes_needed = r.available_slots THEN "WARNING"
                          ELSE "OK"

\* the report counts the needed classes as claimed whenever every assigned
\* course has a demand entry, and derives the status from its two numbers
Phase2NeededAndStatus ==
    Phase2Returned =>
        \A r \in Range(result.message.professors) :
            /\ AssignedCourses(r.professor) \subseteq DOMAIN course_classes_per_week =>
                   r.total_classes_needed = InstructorDemand(r.professor)
            /\ r.status = IF r.total_classes_needed > r.available_slots THEN "CRITICAL"
                          ELSE IF r.total_classes_needed = r.available_slots THEN "WARNING"
                          ELSE "OK"

\* scenario S2: the phase-2 diagnostic for an instructor of two demand-1
\* courses that both have Monday 9 as their only candidate
Phase2SharedSlotReported ==
    /\ Phase2Returned
    /\ \E r \in Range(result.message.professors) :
        /\ Cardinality(AssignedCourses(r.professor)) = 2
        /\ \A c \in AssignedCourses(r.professor) :
               c \in DOMAIN courses /\ courses[c] = TimeSlots(<<Mon9>>) /\ ClassesPerWeek(c) = 1
        /\ r.total_classes_needed = 2 /\ r.available_slots = 0 /\ r.status = "CRITICAL"


\* the total demand the model enforces: a course without entry counts 2, an
\* entry of a course that is not scheduled counts nothing
EnforcedDemand == SumOver(DOMAIN courses, [c \in DOMAIN courses |-> ClassesPerWeek(c)])

SlotCapacity == Cardinality(TimeSlotsKeySlots) * max_classes_per_slot

Phase3Returned ==
    Returned /\ result.message.kind = "diagnostic" /\ result.message.phase = 3

\* capacity is enabled, every course has a candidate list, levels 1 and 2 are
\* feasible and the enforced demand exceeds the capacity
OverCapacityCase ==
    /\ add_timeslot_capacity
    /\ \A c \in DOMAIN courses : "time_slots" \in DOMAIN courses[c]
    /\ LevelFeasible(1) /\ LevelFeasible(2)
    /\ EnforcedDemand > SlotCapacity

\* C20 (as claimed): when capacity is enabled, phases 1 and 2 are feasible and
\* the enforced total demand exceeds |unique candidate slots| *
\* max_classes_per_slot, schedule_courses returns the phase-3 diagnostic and its
\* 'Capacity deficit' is that demand minus the capacity, also when
\* course_classes_per_week lacks an entry of a scheduled course or has entries
\* of courses that are not scheduled.
C20_Phase3DeficitExact ==
    (Returned /\ OverCapacityCase) =>
        /\ Phase3Returned
        /\ result.message.capacity_deficit = EnforcedDemand - SlotCapacity

\* the deficit of a returned phase-3 diagnostic alone
Phase3DeficitOfReport ==
    (Phase3Returned /\ OverCapacityCase) =>
        result.message.capacity_deficit = EnforcedDemand - SlotCapacity

\* the deficit is exact when the demand map has an entry for exactly the
\* scheduled courses
Phase3DeficitWithFullDemandMap ==
    (Phase3Returned /\ OverCapacityCase /\ DOMAIN course_classes_per_week = DOMAIN courses) =>
        result.message.capacity_deficit = EnforcedDemand - SlotCapacity

\* demand = capacity + 1 reported with deficit 1
Phase3DeficitOne ==
    /\ Phase3Returned /\ OverCapacityCase
    /\ EnforcedDemand = SlotCapacity + 1
    /\ result.message.capacity_deficit = 1

\* a scheduled course without a demand entry: the reported deficit is not positive
Phase3DeficitUnderstated ==
    /\ Phase3Returned /\ OverCapacityCase
    /\ DOMAIN courses \ DOMAIN course_classes_per_week # {}
    /\ result.message.capacity_deficit <= 0


----------------------------------------------------------------------------
(* Unassigned courses *)

\* the entry of course c in the instructor map m is missing, empty or None
UnassignedEntry(m, c) ==
    \/ c \notin DOMAIN m
    \/ m[c].t = "None"
    \/ m[c].t = "list" /\ m[c].v = <<>>

\* no instructor has two courses with an assigned instructor in one slot of x
AssignedExclusive(x) ==
    \A p \in Professors : \A s \in Slots :
        Cardinality({c \in DOMAIN courses :
                        /\ ~UnassignedEntry(course_professor_map, c)
                        /\ p \in InstructorsOf(c)
                        /\ s \in x[c]}) <= 1

\* the level-2 model constrains the courses with an assigned instructor only,
\* and the run does not raise
SchedulerIgnoresUnassigned ==
    /\ pc # "raised"
    /\ pc = "phase2" =>
           FeasibleSet(add_prof_constraints, FALSE, FALSE)
               = {x \in FeasibleSet(FALSE, FALSE, FALSE) :
                     add_prof_constraints => AssignedExclusive(x)}

\* the latest call on the searcher ended with an exception of an availability check
AvailabilityCheckRaised ==
    \/ call.op = "search_course" /\ "exception" \in DOMAIN returned.value
    \/ call.op = "get_course_summary_table" /\ returned.value.kind = "TypeError"

\* every matched course without instructor is reported available in every slot
UnassignedReportedAvailable ==
    (call.op = "search_course" /\ ~AvailabilityCheckRaised /\ returned.value.found) =>
        \A c \in DOMAIN returned.value.courses :
            UnassignedEntry(searcher.course_professor_map, c) =>
                \A s \in {row[2] : row \in Range(searcher.schedule_df)} : ReportedAvailable(c, s)

\* C21 (as claimed): a course whose instructor entry is missing, empty or None
\* never causes an error: the scheduler adds no exclusivity constraint for it,
\* the analyzer reports it available in every slot, and the availability
\* checks for the other courses return a result when the instructor map
\* contains such an entry.
C21_UnassignedNeverErrors ==
    /\ SchedulerIgnoresUnassigned
    /\ UnassignedReportedAvailable
    /\ ~AvailabilityCheckRaised

\* the searcher's instructor map has an entry that is None
SearcherMapHasNone ==
    call.op # "none" /\
    \E c \in DOMAIN searcher.course_professor_map : searcher.course_professor_map[c].t = "None"

\* the analyzer part holds for maps whose unassigned entries are missing or empty
UnassignedHandledWithoutNone ==
    ~SearcherMapHasNone => ~AvailabilityCheckRaised

\* a search that returns although the map has a None entry: the check of the
\* matched course ended before it reached that entry
SearchReturnedDespiteNone ==
    /\ SearcherMapHasNone
    /\ call.op = "search_course" /\ ~AvailabilityCheckRaised /\ returned.value.found
    /\ \E c \in DOMAIN returned.value.courses :
           ~UnassignedEntry(searcher.course_professor_map, c)


----------------------------------------------------------------------------
(* Alternative slots *)

\* the slots that have a row in the searcher's schedule, and those of course c
AllScheduleSlots == {row[2] : row \in Range(searcher.schedule_df)}
SlotsOf(c) == {row[2] : row \in {r \in Range(searcher.schedule_df) : r[1] = c}}

\* the students enrolled in c that have a listed course with a row for slot s
WouldBeConflicted(c, s) ==
    {st \in EnrolledIn(c) :
        \E o \in Range(searcher.student_course_map[st]) : <<o, s>> \in Range(searcher.schedule_df)}

AlternativeSlotAvailable ==
    /\ call.op = "search_course" /\ returned.value.found
    /\ \E c \in DOMAIN returned.value.courses :
        /\ AssignedInstructors(c) # {}
        /\ \E s \in DOMAIN returned.value.courses[c].alternative_slot_analysis :
            LET a == returned.value.courses[c].alternative_slot_analysis[s]
            IN  a.professor_available /\ "excluded_reason" \notin DOMAIN a


----------------------------------------------------------------------------
(* Monotone levels *)

\* the assignments that satisfy the hard constraints of level n
LevelSet(n) ==
    FeasibleSet(n >= 2 /\ add_prof_constraints,
                n >= 3 /\ add_timeslot_capacity,
                n >= 5 /\ add_no_same_day)

\* the driver is at a phase, or past one
ModelsBuilt == pc \in {"phase1", "phase2", "phase3", "phase4", "phase5", "after5"} \/ solved # <<>>

\* the assignment read back from a schedule
AssignmentOf(df) == [c \in DOMAIN courses |-> {row[2] : row \in {r \in Range(df) : r[1] = c}}]

\* what a call of solve_phase for level n tells about the levels: an
\* assignment shows every level up to n feasible, and the assignment of phase
\* 5 or 6 satisfies the hard constraints of each of them; INFEASIBLE shows
\* every level from n on infeasible
SolvedLevelConsistent ==
    solved' # solved =>
        LET n == solved'[Len(solved')]
        IN  /\ status' \in {"OPTIMAL", "FEASIBLE"} =>
                /\ \A m \in 1..n : LevelSet(m) # {}
                /\ n >= 5 => \A m \in 1..n : AssignmentOf(schedule_df') \in LevelSet(m)
            /\ status' = "INFEASIBLE" => \A m \in n..6 : LevelSet(m) = {}

\* C23: for every input and toggle setting and every L in 1..5 the assignments
\* feasible at level L+1 are feasible at level L, so that once a level is
\* infeasible every later level is; the models the driver solves are these: a
\* phase that returns an assignment has all earlier levels feasible, and a
\* phase that returns INFEASIBLE has all later levels infeasible.
C23_LevelsMonotone ==
    /\ [](ModelsBuilt =>
            \A L \in 1..5 :
                /\ LevelSet(L + 1) \subseteq LevelSet(L)
                /\ LevelSet(L) = {} => LevelSet(L + 1) = {})
    /\ [][SolvedLevelConsistent]_vars

\* the phase-5 diagnostic returned for an input whose instructor family
\* removes assignments without removing all of them, and whose same-day
\* family removes the rest
C23_Witness ==
    /\ Returned /\ result.message.kind = "diagnostic" /\ result.message.phase = 5
    /\ status = "INFEASIBLE" /\ solved = <<1, 2, 3, 4, 5>>
    /\ LevelSet(2) # LevelSet(1)
    /\ LevelSet(4) # {}
    /\ LevelSet(5) = {} /\ LevelSet(6) = {}


----------------------------------------------------------------------------
(* The objective *)

\* the arguments solve_phase is called with for level n
LevelPenalty(n, x) ==
    total_penalty(x, n >= 4 /\ add_student_conflicts, n >= 5 /\ add_no_same_day,
                  n >= 6 /\ add_no_consec_days)

\* the part of the level-6 objective that the consecutive-day family adds
ConsecTerm(x) ==
    total_penalty(x, add_student_conflicts, add_no_same_day, TRUE)
        - total_penalty(x, add_student_conflicts, add_no_same_day, FALSE)

\* course c has a candidate slot, resp. a class under x, on day d
CandidateOn(c, d) == \E s \in CandidateSlots(c) : DayToken(s) = d
ClassOn(x, c, d) == \E s \in x[c] : DayToken(s) = d

\* the (course, adjacent day pair) with candidates on both days and, under x,
\* classes on both days
ConsecutivePairs(x) ==
    {ci \in (DOMAIN courses) \X (1..(Len(day_order) - 1)) :
        /\ CandidateOn(ci[1], day_order[ci[2]]) /\ CandidateOn(ci[1], day_order[ci[2] + 1])
        /\ ClassOn(x, ci[1], day_order[ci[2]]) /\ ClassOn(x, ci[1], day_order[ci[2] + 1])}

PairsCompleteAtLastSlot ==
    \A c \in DOMAIN courses :
        LET l == courses[c]["time_slots"]
        IN  \A i \in 1..(Len(day_order) - 1) :
                (CandidateOn(c, day_order[i]) /\ CandidateOn(c, day_order[i + 1])) =>
                    \/ \A k \in 1..(Len(l) - 1) : DayToken(l[k]) # day_order[i]
                    \/ \A k \in 1..(Len(l) - 1) : DayToken(l[k]) # day_order[i + 1]

ConsecutiveTermExactAtLastSlot ==
    (6 \in Range(solved) /\ PairsCompleteAtLastSlot) =>
        \A x \in LevelSet(6) : ConsecTerm(x) = 100 * Cardinality(ConsecutivePairs(x))

\* phase 6 was solved for a course with candidates <Monday, Tuesday, Monday>
\* that meets on Monday and Tuesday: one pair, priced 200
ConsecutivePairPricedTwice ==
    /\ 6 \in Range(solved) /\ Success /\ status = "OPTIMAL"
    /\ courses["A"]["time_slots"] = <<Mon9, Tue9, Mon10>>
    /\ LET x == ReturnedAssignment
       IN  /\ x \in LevelSet(6)
           /\ Cardinality(ConsecutivePairs(x)) = 1
           /\ ConsecTerm(x) = 200


----------------------------------------------------------------------------
(* The Required-pair penalty *)

\* the (student, slot) in which two different Required courses of the student meet
RequiredPairClashes(x) ==
    {ts \in (DOMAIN student_course_map) \X Slots :
        \E c1, c2 \in Range(student_course_map[ts[1]]) \cap DOMAIN courses :
            /\ c1 # c2
            /\ DictGet(course_type, c1, "Elective") = "Required"
            /\ DictGet(course_type, c2, "Elective") = "Required"
            /\ ts[2] \in x[c1] /\ ts[2] \in x[c2]}

\* what is left of the level-n objective without its student-clash,
\* non-preferred and consecutive-day terms
RequiredTerm(n, x) ==
    LevelPenalty(n, x)
        - (IF n >= 4 /\ add_student_conflicts
           THEN STUDENT_CONFLICT_WEIGHT * Cardinality(ConflictVars(x)) ELSE 0)
        - NON_PREFERRED_SLOTS * Cardinality(SlotPenaltyVars(x))
        - (IF n >= 6 /\ add_no_consec_days
           THEN CONSEC_CONFLICT_WEIGHT * ConsecViolations(x) ELSE 0)

\* C25 (as claimed): the Required-pair penalty belongs to the student-clash
\* level: it is in the objective from level 4 on when add_student_conflicts
\* is on, whatever add_no_same_day is, and absent when add_student_conflicts
\* is off.
C25_RequiredPenaltyWithStudentLevel ==
    \A n \in Range(solved) \cap (4..6) :
        \A x \in LevelSet(n) :
            RequiredTerm(n, x) =
                IF add_student_conflicts
                THEN REQUIRED_CONFLICT_WEIGHT * Cardinality(RequiredPairClashes(x))
                ELSE 0

\* what the code does: the penalty is in the objective from level 5 on when
\* add_no_same_day is on
RequiredPenaltyWithSameDayLevel ==
    \A n \in Range(solved) \cap (4..6) :
        \A x \in LevelSet(n) :
            RequiredTerm(n, x) =
                IF n >= 5 /\ add_no_same_day
                THEN REQUIRED_CONFLICT_WEIGHT * Cardinality(RequiredPairClashes(x))
                ELSE 0

\* a level built with student clashes priced and two Required courses of a
\* student in one slot, without the penalty
RequiredClashUnpriced ==
    /\ add_student_conflicts
    /\ \E n \in Range(solved) \cap (4..6) : \E x \in LevelSet(n) :
           RequiredPairClashes(x) # {} /\ RequiredTerm(n, x) = 0

\* a level built without the student-clash family, with the penalty
RequiredClashPricedWithoutStudentLevel ==
    /\ ~add_student_conflicts
    /\ \E n \in Range(solved) \cap (4..6) : \E x \in LevelSet(n) :
           RequiredTerm(n, x) = REQUIRED_CONFLICT_WEIGHT


----------------------------------------------------------------------------
(* The weights *)

\* the counts the final objective prices, in the order of their weights
\* (10000, 100, 50, 10); a family that is off contributes no term
TierCounts(x) ==
    << IF add_student_conflicts THEN Cardinality(ConflictVars(x)) ELSE 0,
       IF add_no_consec_days THEN ConsecViolations(x) ELSE 0,
       Cardinality(SlotPenaltyVars(x)),
       IF add_no_same_day THEN Cardinality(ConflictRequiredVars(x)) ELSE 0 >>

WeightedSum(k) ==
    STUDENT_CONFLICT_WEIGHT * k[1] + CONSEC_CONFLICT_WEIGHT * k[2]
        + NON_PREFERRED_SLOTS * k[3] + REQUIRED_CONFLICT_WEIGHT * k[4]

LexLess(k1, k2) ==
    \E i \in 1..4 : k1[i] < k2[i] /\ \A j \in 1..(i - 1) : k1[j] = k2[j]

FinalOptimum ==
    /\ Success /\ result.message.phase = LastPhase /\ status = "OPTIMAL"

\* C26 (as claimed): the weights give lexicographic precedence student-clash >
\* consecutive-day > non-preferred > required-pair: an assignment that
\* minimises the weighted objective of the final phase is not beaten, in the
\* lexicographic order of the four counts, by any feasible assignment of that
\* phase.
C26_WeightsLexicographic ==
    FinalOptimum =>
        \A y \in LevelSet(LastPhase) :
            ~LexLess(TierCounts(y), TierCounts(ReturnedAssignment))

\* the objective of the final phase is the weighted sum of the four counts,
\* and the returned optimum minimises it
OptimumMinimisesWeightedSum ==
    FinalOptimum =>
        /\ ReturnedAssignment \in LevelSet(LastPhase)
        /\ \A y \in LevelSet(LastPhase) :
              /\ LevelPenalty(LastPhase, y) = WeightedSum(TierCounts(y))
              /\ WeightedSum(TierCounts(ReturnedAssignment)) <= WeightedSum(TierCounts(y))

\* the first tier: the returned optimum has the fewest student clashes
OptimumMinimisesClashes ==
    FinalOptimum =>
        \A y \in LevelSet(LastPhase) :
            TierCounts(ReturnedAssignment)[1] <= TierCounts(y)[1]

\* an optimum with one consecutive-day flag and no non-preferred use, where an
\* assignment with no flag and two non-preferred uses is feasible: 100 = 2 * 50
FlagTradedForTwoUses ==
    /\ FinalOptimum /\ add_student_conflicts /\ add_no_consec_days
    /\ TierCounts(ReturnedAssignment) = <<0, 1, 0, 0>>
    /\ \E y \in LevelSet(LastPhase) : TierCounts(y) = <<0, 0, 2, 0>>


----------------------------------------------------------------------------
(* The demand the diagnostics report *)

\* the demand of a course as the pre-check and the level-1 constraint read it;
\* a listed course that is not scheduled keeps its listed figure
ExpectedDemand(c) ==
    IF c \in DOMAIN courses THEN needed(c) ELSE DictGet(course_classes_per_week, c, 0)

DiagnosticOf(n) == Returned /\ result.message.kind = "diagnostic" /\ result.message.phase = n

Phase1FiguresDefault ==
    DiagnosticOf(1) =>
        \A i \in DOMAIN result.message.problem_courses :
            LET e == result.message.problem_courses[i]
            IN  e.needed = ExpectedDemand(e.course)

Phase2FiguresDefault ==
    DiagnosticOf(2) =>
        \A i \in DOMAIN result.message.professors :
            LET r == result.message.professors[i]
            IN  r.total_classes_needed =
                    SumSeq(r.assigned_courses,
                           [c \in Range(r.assigned_courses) |-> ExpectedDemand(c)])

Phase3FiguresDefault ==
    DiagnosticOf(3) =>
        LET all == DOMAIN courses \cup DOMAIN course_classes_per_week
        IN  /\ result.message.total_classes = SumOver(all, [c \in all |-> ExpectedDemand(c)])
            /\ \A c \in DOMAIN courses :
                   \E i \in DOMAIN result.message.courses :
                       result.message.courses[i] = <<c, needed(c)>>

Phase5FiguresDefault ==
    DiagnosticOf(5) =>
        \A c \in DOMAIN courses :
            needed(c) > 1 =>
                \E i \in DOMAIN result.message.courses :
                    /\ result.message.courses[i].course = c
                    /\ result.message.courses[i].classes_needed = needed(c)

\* C27 (as claimed): a course with no entry in course_classes_per_week has
\* demand 2 everywhere the demand is read: the totals and per-course figures
\* of the phase-1, phase-2, phase-3 and phase-5 diagnostics are computed with
\* the demand the pre-check and the level-1 constraint use for every
\* scheduled course.
C27_DefaultDemandEverywhere ==
    /\ Phase1FiguresDefault
    /\ Phase2FiguresDefault
    /\ Phase3FiguresDefault
    /\ Phase5FiguresDefault

\* with an entry for every scheduled course the figures agree
DemandFiguresAgreeWhenListed ==
    (DOMAIN courses \subseteq DOMAIN course_classes_per_week) => C27_DefaultDemandEverywhere

\* the phase-5 diagnostic of a run whose course A has no entry and cannot
\* meet twice on different days: A is not among the reported courses
Phase5OmitsDefaultedCourse ==
    /\ DiagnosticOf(5)
    /\ "A" \in DOMAIN courses /\ "A" \notin DOMAIN course_classes_per_week
    /\ \A i \in DOMAIN result.message.courses : result.message.courses[i].course # "A"

\* the phase-2 diagnostic counts a defaulted course of an instructor as 0
Phase2CountsDefaultedAsZero ==
    /\ DiagnosticOf(2)
    /\ \E i \in DOMAIN result.message.professors :
           LET r == result.message.professors[i]
           IN  /\ r.total_classes_needed = 0
               /\ \E c \in Range(r.assigned_courses) :
                      c \in DOMAIN courses /\ c \notin DOMAIN course_classes_per_week


----------------------------------------------------------------------------
(* The phase-5 diagnostic *)

\* the distinct days among the candidate slots of a course
CandidateDays(c) == {DayToken(s) : s \in CandidateSlots(c)}

\* a reported course that is marked PROBLEM and whose enforced demand exceeds
\* the number of distinct days among its candidate slots
ResponsibleCourse(e) ==
    /\ e.status = "PROBLEM"
    /\ e.course \in DOMAIN courses
    /\ needed(e.course) > Cardinality(CandidateDays(e.course))

\* C28 (as claimed): whenever the phase-5 diagnostic is returned, it names at
\* least one responsible course: a course marked PROBLEM whose demand exceeds
\* the number of distinct days among its candidate slots.
C28_Phase5NamesResponsibleCourse ==
    DiagnosticOf(5) =>
        \E i \in DOMAIN result.message.courses : ResponsibleCourse(result.message.courses[i])

\* a course that is reported PROBLEM has fewer candidate days than classes
ProblemCoursesAreShort ==
    DiagnosticOf(5) =>
        \A i \in DOMAIN result.message.courses :
            LET e == result.message.courses[i]
            IN  (e.status = "PROBLEM" /\ e.course \in DOMAIN courses
                    /\ "time_slots" \in DOMAIN courses[e.course]
                    /\ DOMAIN courses[e.course] = {"time_slots"})
                => needed(e.course) > Cardinality(CandidateDays(e.course))

\* level 5 is the first infeasible level, every scheduled course has an entry,
\* and every reported course is marked OK
Phase5DiagnosticAllOK ==
    /\ DiagnosticOf(5)
    /\ status = "INFEASIBLE"
    /\ LevelSet(4) # {} /\ LevelSet(5) = {}
    /\ DOMAIN courses \subseteq DOMAIN course_classes_per_week
    /\ \A c \in DOMAIN courses : DOMAIN courses[c] = {"time_slots"}
    /\ result.message.courses # <<>>
    /\ \A i \in DOMAIN result.message.courses : result.message.courses[i].status = "OK"

\* the scenario of one course with demand above its single candidate day
Phase5NamesSameDayCourse ==
    /\ DiagnosticOf(5)
    /\ \E i \in DOMAIN result.message.courses :
           /\ ResponsibleCourse(result.message.courses[i])
           /\ Cardinality(result.message.courses[i].available_days) = 1


----------------------------------------------------------------------------
(* Section allocation *)

SectionsReturned == call.op = "allocate_sections_for_course"

\* the students of section k in the returned assignments
SectionMembers(k) ==
    {i \in DOMAIN returned.value : returned.value[i].Assigned_Section = k}

\* every enrolled student has exactly one row, with a section in 1..num_sections
EveryStudentOneSection ==
    SectionsReturned =>
        /\ \A r \in DOMAIN call.enrolled_students_df :
               Cardinality({i \in DOMAIN returned.value :
                               returned.value[i].Roll_No = call.enrolled_students_df[r].Roll_No}) = 1
        /\ Len(returned.value) = Len(call.enrolled_students_df)
        /\ \A i \in DOMAIN returned.value :
               returned.value[i].Assigned_Section \in 1..call.num_sections

\* no section has more than max_section_size students
SectionsWithinSize ==
    SectionsReturned =>
        \A k \in 1..call.num_sections :
            Cardinality(SectionMembers(k)) <=
                SectionSize(call.num_sections, call.enrolled_students_df, call.max_section_size)

\* C29 (as claimed): allocate_sections_for_course assigns every enrolled
\* student to exactly one section numbered in 1..num_sections, and no section
\* receives more than max_section_size students (the given value, or
\* max(10, enrolled // num_sections) when None), whatever the clusters are.
C29_SectionsAllocated ==
    /\ EveryStudentOneSection
    /\ SectionsWithinSize

\* five students of one cluster, three sections of at most two: the last
\* piece of the split has three students
LastPieceTooLarge ==
    /\ SectionsReturned
    /\ call.num_sections = 3 /\ call.max_section_size = GivenSize(2)
    /\ Len(call.enrolled_students_df) = 5
    /\ \A r \in DOMAIN call.enrolled_students_df : call.enrolled_students_df[r].Cluster = 0
    /\ Cardinality(SectionMembers(3)) = 3

\* two clusters that each fit are given the same section, which then exceeds
\* the size although another allocation within the size exists
ClustersShareSection ==
    /\ SectionsReturned
    /\ call.num_sections = 1 /\ call.max_section_size = GivenSize(1)
    /\ Len(call.enrolled_students_df) = 2
    /\ Cardinality(SectionMembers(1)) = 2


----------------------------------------------------------------------------
(* The pre-check and level 1 *)

NoRepeatedLabels ==
    \A c \in DOMAIN courses :
        "time_slots" \in DOMAIN courses[c] =>
            Len(courses[c]["time_slots"]) = Cardinality(Range(courses[c]["time_slots"]))

NonNegativeDemands == \A c \in DOMAIN courses : needed(c) >= 0

\* the pre-check loop ended without a return
PreCheckPassed ==
    \/ pc \in {"phase1", "phase2", "phase3", "phase4", "phase5", "after5"}
    \/ Returned /\ result.message.kind \in {"diagnostic", "success"}

\* C30: if the pre-check passes, no candidate list has a repeated slot label
\* and every demand is non-negative, then the level-1 model is feasible and
\* the phase-1 diagnostic is not returned: a demand shortfall is reported by
\* the pre-check message only.
C30_Level1FeasibleAfterPreCheck ==
    (PreCheckPassed /\ NoRepeatedLabels /\ NonNegativeDemands) =>
        /\ LevelSet(1) # {}
        /\ ~DiagnosticOf(1)

\* phase 1 was solved for a course whose demand uses every candidate slot
C30_Witness ==
    /\ PreCheckPassed /\ NoRepeatedLabels /\ NonNegativeDemands
    /\ 1 \in Range(solved)
    /\ needed("A") = Len(courses["A"]["time_slots"]) /\ needed("A") >= 2
    /\ LevelSet(1) # {}

\* the pre-check counts a repeated label twice: the phase-1 diagnostic is returned
Phase1DiagnosticWithRepeatedLabel ==
    /\ DiagnosticOf(1) /\ status = "INFEASIBLE"
    /\ ~NoRepeatedLabels /\ NonNegativeDemands

\* a negative demand passes the pre-check: the phase-1 diagnostic is returned
Phase1DiagnosticWithNegativeDemand ==
    /\ DiagnosticOf(1) /\ status = "INFEASIBLE"
    /\ NoRepeatedLabels /\ ~NonNegativeDemands

\* a shortfall of a course without repeated labels is reported by the pre-check
ShortfallReportedByPreCheck ==
    /\ Returned /\ result.message.kind = "precheck"
    /\ NoRepeatedLabels /\ NonNegativeDemands

====
